---------------------------- MODULE Spec2Model ----------------------------
(***************************************************************************)
(* A model of the numerical-methods repository's two verification          *)
(* pipelines: the FLOP model and the empirical complexity estimator of     *)
(* 00_numerical_foundations/computational_complexity_model, and the        *)
(* finite-difference derivative checks of utils/finite_difference_checks.  *)
(*                                                                         *)
(* Floating-point values are modelled in exact arithmetic: integers, and   *)
(* rationals <<num, den>> in lowest terms with den > 0.                    *)
(***************************************************************************)
EXTENDS Integers, Sequences, FiniteSets, TLC

VARIABLES
    flop,       \* the last FlopModel call: operation, dimensions, result
    fd,         \* the last call of a derivative estimator and what it did
    chk,        \* the last derivative check or relative_error call
    vc,         \* the last verify_complexity call and what it did
    tm,         \* the timing call in progress: its entry point and arguments
    pc,         \* where that call stands
    i_size,     \* index of the problem size being timed (1-based)
    run_times,  \* elapsed times of the repetitions of this size so far
    times,      \* median time of every size finished
    timers,     \* number of perf_counter intervals open
    counts,     \* for this size: calls of func, those inside an open
                \* interval, calls of setup_func
    ret,        \* what the timing call returned or raised
    scope       \* a Timer, a FlopCounter, the clock and the with-blocks
                \* that use them

timingVars == <<tm, pc, i_size, run_times, times, timers, counts, ret>>
vars == <<flop, fd, chk, vc, tm, pc, i_size, run_times, times, timers, counts, ret, scope>>

\* what each pipeline leaves alone
flopOthers == <<fd, chk, vc, timingVars, scope>>
fdOthers == <<flop, chk, vc, timingVars, scope>>
chkOthers == <<flop, fd, vc, timingVars, scope>>
vcOthers == <<flop, fd, chk, timingVars, scope>>
timingOthers == <<flop, fd, chk, vc, scope>>
scopeOthers == <<flop, fd, chk, vc, timingVars>>

\* no call in progress
FlopIdle == [op |-> "none", m |-> 0, n |-> 0, k |-> 0, result |-> 0]
FdIdle == [op |-> "none"]
ChkIdle == [op |-> "none"]
VcIdle == [op |-> "none"]
TmIdle == [entry |-> "none"]
\* no Timer and no FlopCounter constructed yet, the clock at 0
\* Python's None is <<>> and a number v is <<v>>.
None == <<>>
ScopeIdle ==
    [clock |-> 0,
     timer |-> [at |-> "none", start_time |-> None, elapsed |-> None,
                printed |-> None, left_by |-> "none", propagated |-> FALSE],
     counter |-> [at |-> "none", count |-> 0, recorded |-> 0, after |-> 0,
                  left_by |-> "none", propagated |-> FALSE]]
NoCounts == [func |-> 0, timed |-> 0, setup |-> 0]
NoReturn == [raised |-> "none"]
TimingIdle ==
    /\ tm = TmIdle
    /\ pc = "idle"
    /\ i_size = 0
    /\ run_times = <<>>
    /\ times = <<>>
    /\ timers = 0
    /\ counts = NoCounts
    /\ ret = NoReturn

-----------------------------------------------------------------------------
(* Bounds of the model. *)

\* largest matrix/vector dimension handed to the FLOP model
MaxFlopDim == 5

\* largest dimension n of an evaluation point x
MaxDim == 2

\* largest step size epsilon (steps are 1..MaxEps on the integer grid)
MaxEps == 2

\* longest expected-complexity descriptor enumerated over its alphabet
MaxDescLen == 3

\* largest number of problem sizes in a sweep
MaxSizes == 2

\* largest number n_runs of timed repetitions per size
MaxRuns == 2

\* largest number of step sizes alpha handed to directional_derivative_check
MaxAlphas == 2

\* largest n_samples of gradient_consistency_check
MaxSamples == 2

\* latest reading of time.perf_counter, in ticks
MaxClock == 3

\* largest count a FlopCounter is driven to
MaxCount == 6

-----------------------------------------------------------------------------
(* Program constants. *)

\* estimate_complexity's default n_runs, which verify_complexity relies on
DefaultRuns == 3

-----------------------------------------------------------------------------
(* Exact arithmetic: a rational is <<num, den>> in lowest terms, den > 0. *)

Abs(a) == IF a < 0 THEN -a ELSE a

RECURSIVE Gcd(_, _)
Gcd(a, b) == IF b = 0 THEN a ELSE Gcd(b, a % b)

\* num/den (den # 0) in lowest terms
Rat(num, den) ==
    LET g == Gcd(Abs(num), Abs(den))
        sgn == IF den < 0 THEN -1 ELSE 1
    IN  <<sgn * (num \div g), sgn * (den \div g)>>

RatInt(a) == <<a, 1>>
RatAdd(p, q) == Rat(p[1] * q[2] + q[1] * p[2], p[2] * q[2])
RatSub(p, q) == Rat(p[1] * q[2] - q[1] * p[2], p[2] * q[2])
RatMul(p, q) == Rat(p[1] * q[1], p[2] * q[2])
\* p / q, q # 0
RatDiv(p, q) == Rat(p[1] * q[2], p[2] * q[1])
RatLess(p, q) == p[1] * q[2] < q[1] * p[2]
RatAbs(p) == <<Abs(p[1]), p[2]>>
RatZero == RatInt(0)

\* the sum of a sequence of integers
RECURSIVE IntSum(_)
IntSum(s) == IF s = <<>> THEN 0 ELSE s[1] + IntSum(Tail(s))

\* the sum of a sequence of rationals
RECURSIVE RatSum(_)
RatSum(s) == IF s = <<>> THEN RatZero ELSE RatAdd(s[1], RatSum(Tail(s)))

-----------------------------------------------------------------------------
(* FlopModel: implementation.py, count_*_flops. *)

count_dot_product_flops(n) ==
    LET multiplications == n
        additions == n - 1
    IN  multiplications + additions

count_matvec_flops(m, n) ==
    LET flops_per_row == 2 * n
    IN  m * flops_per_row

count_matmul_flops(m, n, k) ==
    LET flops_per_entry == 2 * k
        total_entries == m * n
    IN  flops_per_entry * total_entries

\* the loop "for i in range(1, n + 1): total += 2 * (i - 1) + 1", from i on
RECURSIVE TriangularLoop(_, _, _)
TriangularLoop(n, i, total) ==
    IF i >= n + 1 THEN total
    ELSE TriangularLoop(n, i + 1, total + 2 * (i - 1) + 1)

count_triangular_solve_flops(n) == TriangularLoop(n, 1, 0)

\* the loop "for k in range(n - 1)", from pivot step k on
RECURSIVE LuLoop(_, _, _)
LuLoop(n, k, total) ==
    IF k >= n - 1 THEN total
    ELSE LuLoop(n, k + 1, total + (n - k) + 2 * (n - k) * (n - k))

count_lu_flops(n) == LuLoop(n, 0, 0)

\* A slip in the rounding: half of LU rounded up instead of floored.
CholeskyRoundedUp(n) == (count_lu_flops(n) + 1) \div 2

\* Python's // on a non-negative count and 2 is \div
count_cholesky_flops(n) == count_lu_flops(n) \div 2

count_qr_flops(m, n) == 2 * m * n * n - ((2 * n * n * n) \div 3)

-----------------------------------------------------------------------------
(* ComplexityEstimator and ComplexityVerifier: implementation.py.           *)
(* A descriptor string is a sequence of one-character strings.              *)

\* Python's "sub in s"
Contains(s, sub) ==
    \E k \in 1..(Len(s) - Len(sub) + 1) : SubSeq(s, k, k + Len(sub) - 1) = sub

\* A slip: "n" taken for linear whenever no "n^3"/"n^2" is present, caret or not.
ParseIgnoringCaret(expected_complexity) ==
    IF Contains(expected_complexity, <<"n", "^", "3">>) THEN 3
    ELSE IF Contains(expected_complexity, <<"n", "^", "2">>) THEN 2
    ELSE IF Contains(expected_complexity, <<"n">>) THEN 1
    ELSE 0

\* "parse expected complexity": the exponent selected, 0 for the ValueError
ParseComplexity(expected_complexity) ==
    IF Contains(expected_complexity, <<"n", "^", "3">>) THEN 3
    ELSE IF Contains(expected_complexity, <<"n", "^", "2">>) THEN 2
    ELSE IF /\ Contains(expected_complexity, <<"n">>)
            /\ ~Contains(expected_complexity, <<"^">>) THEN 1
    ELSE 0

\* the sequence s with its element at position k removed
RemoveAt(s, k) == SubSeq(s, 1, k - 1) \o SubSeq(s, k + 1, Len(s))

\* the rationals of s in non-decreasing order
RECURSIVE SortRats(_)
SortRats(s) ==
    IF s = <<>> THEN <<>>
    ELSE LET k == CHOOSE i \in 1..Len(s) :
                      \A j \in 1..Len(s) : ~RatLess(s[j], s[i])
         IN  <<s[k]>> \o SortRats(RemoveAt(s, k))

\* np.median of a non-empty list: the middle element, or the mean of the
\* two middle elements of an even count
Median(samples) ==
    LET sorted == SortRats(samples)
        n == Len(sorted)
    IN  IF n % 2 = 1 THEN sorted[(n + 1) \div 2]
        ELSE RatDiv(RatAdd(sorted[n \div 2], sorted[n \div 2 + 1]), RatInt(2))

IsPowerOfTwo(k) == \E e \in 0..30 : 2 ^ e = k

\* whether log2 of the positive rational v is an integer
HasExactLog(v) ==
    \/ v[2] = 1 /\ IsPowerOfTwo(v[1])
    \/ v[1] = 1 /\ IsPowerOfTwo(v[2])

\* log2 of a power of two (np.log up to the common factor ln 2, which the
\* slope of a log-log fit does not depend on)
Log2(v) ==
    IF v[2] = 1 THEN CHOOSE e \in 0..30 : 2 ^ e = v[1]
    ELSE -(CHOOSE e \in 0..30 : 2 ^ e = v[2])

\* The fit of estimate_complexity, lines 105-115, on sizes and median times:
\* the set of outcomes it can have.  An outcome is
\*   [kind |-> "slope", value |-> p]  the least-squares slope p, returned;
\*   [kind |-> "inexact"]            a slope returned that is no rational
\*                                   the model represents (a time or size that
\*                                   is no power of two);
\*   [kind |-> "min_norm"]           a rank-deficient system (one size, or
\*                                   all sizes equal): lstsq returns its
\*                                   minimum-norm solution, a finite number;
\*   [kind |-> "nan"]                a result computed from log(0) = -inf;
\*   [kind |-> "zero_rows"]          no sizes: lstsq of a 0 x 2 system
\*                                   returns 0;
\*   [kind |-> "LinAlgError"]        numpy's own error, which some builds
\*                                   raise on -inf or on an empty system.
FitOutcomes(sizes, medians) ==
    LET N == Len(sizes)
        noValue == RatZero
        out(k) == [kind |-> k, value |-> noValue]
    IN  IF N = 0 THEN {out("zero_rows"), out("LinAlgError")}
        ELSE IF \E i \in 1..N : ~RatLess(RatZero, medians[i])
            THEN {out("nan"), out("LinAlgError")}
        ELSE IF \A i \in 1..N : sizes[i] = sizes[1] THEN {out("min_norm")}
        ELSE IF \E i \in 1..N : ~HasExactLog(RatInt(sizes[i])) \/ ~HasExactLog(medians[i])
            THEN {out("inexact")}
        ELSE LET lx == [i \in 1..N |-> Log2(RatInt(sizes[i]))]
                 ly == [i \in 1..N |-> Log2(medians[i])]
                 sx == IntSum(lx)
                 sy == IntSum(ly)
                 sxy == IntSum([i \in 1..N |-> lx[i] * ly[i]])
                 sxx == IntSum([i \in 1..N |-> lx[i] * lx[i]])
             IN  {[kind |-> "slope",
                   value |-> Rat(N * sxy - sx * sy, N * sxx - sx * sx)]}

\* A slip: the deviation compared with <= instead of <.
WithinToleranceInclusive(actual_exp, expected_exp, tolerance) ==
    LET deviation == RatAbs(RatSub(actual_exp, RatInt(expected_exp)))
    IN  ~RatLess(tolerance, deviation)

\* "deviation = abs(actual_exp - expected_exp); matches = deviation < tolerance"
WithinTolerance(actual_exp, expected_exp, tolerance) ==
    LET deviation == RatAbs(RatSub(actual_exp, RatInt(expected_exp)))
    IN  RatLess(deviation, tolerance)

\* the verdicts verify_complexity can return on a fit that came back
Verdicts(fit, expected_exp, tolerance) ==
    CASE fit.kind = "slope" -> {WithinTolerance(fit.value, expected_exp, tolerance)}
      [] fit.kind = "zero_rows" -> {WithinTolerance(RatZero, expected_exp, tolerance)}
      [] fit.kind = "nan" -> {FALSE}
      [] OTHER -> BOOLEAN

-----------------------------------------------------------------------------
(* TimingSampler: the timing loops of estimate_complexity (lines 91-103)    *)
(* and benchmark_operation (lines 209-220), one step per statement.         *)

\* A slip: setup_func called after the interval is opened.
StepAfterTimingSetup(entry, at) ==
    IF entry = "estimate_complexity"
    THEN CASE at = "run"   -> "start"
           [] at = "start" -> "setup"
           [] at = "setup" -> "call"
           [] at = "call"  -> "stop"
           [] at = "stop"  -> "run"
    ELSE CASE at = "warmup" -> "run"
           [] at = "run"    -> "start"
           [] at = "start"  -> "call"
           [] at = "call"   -> "stop"
           [] at = "stop"   -> "run"

\* the statement order of one repetition
StepAfter(entry, at) ==
    IF entry = "estimate_complexity"
    THEN CASE at = "run"   -> "setup"
           [] at = "setup" -> "start"
           [] at = "start" -> "call"
           [] at = "call"  -> "stop"
           [] at = "stop"  -> "run"
    ELSE CASE at = "warmup" -> "run"
           [] at = "run"    -> "start"
           [] at = "start"  -> "call"
           [] at = "call"   -> "stop"
           [] at = "stop"   -> "run"

\* A slip: one repetition too many.
RepetitionsLeftInclusive(n_runs, done) == done <= n_runs

\* "for _ in range(n_runs)": another repetition follows
RepetitionsLeft(n_runs, done) == done < n_runs

\* compute_gflops: flops / time_seconds / 1e9, kept as the rational
\* flops / time_seconds with the factor 1e-9 apart; numpy's division by a
\* zero time gives inf
compute_gflops(flops, time_seconds) ==
    IF time_seconds = RatZero THEN [kind |-> "inf", e9 |-> RatZero]
    ELSE [kind |-> "finite", e9 |-> RatDiv(RatInt(flops), time_seconds)]

\* the problem and FLOP count benchmark_operation builds, lines 188-207
BenchmarkFlops(operation, n) ==
    CASE operation = "dot_product" -> count_dot_product_flops(n)
      [] operation = "matvec" -> count_matvec_flops(n, n)
      [] operation = "matmul" -> count_matmul_flops(n, n, n)
      [] OTHER -> -1

\* A slip that a validating estimator would not have: fewer than two sizes
\* refused with an error of its own.
FitValidating(sizes, medians) ==
    IF Len(sizes) < 2
    THEN {[kind |-> "InsufficientSamples", value |-> RatZero]}
    ELSE FitOutcomes(sizes, medians)

\* lines 105-115 as estimate_complexity runs them: no check precedes the fit
Fit(sizes, medians) == FitOutcomes(sizes, medians)

-----------------------------------------------------------------------------
(* Scalar functions f handed to the estimators.  A function is a record;   *)
(* ReF is f at a real point, ImF the imaginary part of f at a complex      *)
(* point <<re, im>> (what np.imag(f(x_complex)) reads).                    *)

Dot(a, x) == IntSum([i \in 1..Len(x) |-> a[i] * x[i]])

\* x^T Q y
Bilinear(Q, x, y) ==
    IntSum([i \in 1..Len(x) |-> IntSum([j \in 1..Len(y) |-> Q[i][j] * x[i] * y[j]])])

ReF(f, x) ==
    CASE f.kind = "affine" -> RatInt(Dot(f.a, x) + f.b)
      [] f.kind = "quad"   -> Rat(Bilinear(f.Q, x, x), 2)
      [] f.kind = "cubic"  -> RatInt(IntSum([i \in 1..Len(x) |-> x[i] * x[i] * x[i]]))
      [] f.kind = "abs"    -> RatInt(IntSum([i \in 1..Len(x) |-> Abs(x[i])]))

ImF(f, re, im) ==
    CASE f.kind = "affine" -> RatInt(Dot(f.a, im))
      [] f.kind = "quad"   -> Rat(Bilinear(f.Q, re, im) + Bilinear(f.Q, im, re), 2)
      [] f.kind = "cubic"  ->
            RatInt(IntSum([i \in 1..Len(re) |->
                       3 * re[i] * re[i] * im[i] - im[i] * im[i] * im[i]]))
      [] f.kind = "abs"    -> RatZero

\* f called for the (k+1)-th time, at the real point x.  A function of kind
\* "counter" depends on global state, not on x: its value is the cube of
\* the number of calls made before this one.
Eval(f, x, k) ==
    IF f.kind = "counter" THEN RatInt(k * k * k) ELSE ReF(f, x)

-----------------------------------------------------------------------------
(* FiniteDifferenceEstimator: finite_difference_checks.py.                  *)
(* A loop threads acc = [x, grad, evals]: the caller's array (np.asarray of *)
(* a float array is the array itself), the estimate so far and the points   *)
(* f has been evaluated at, in order.                                       *)

\* a point as f receives it: a real point has a zero imaginary part
RealPoint(x) == [re |-> x, im |-> [i \in 1..Len(x) |-> 0]]

\* A slip: x itself perturbed, no copy taken.
PerturbedInPlace(x, i, delta) ==
    [x |-> [x EXCEPT ![i] = @ + delta], pt |-> [x EXCEPT ![i] = @ + delta]]

\* "x_plus = x.copy(); x_plus[i] += delta": the copy moves, x stays
PerturbedCopy(x, i, delta) ==
    [x |-> x, pt |-> [x EXCEPT ![i] = @ + delta]]

\* A slip: the base value f0 = f(x) evaluated again for every coordinate.
RECURSIVE ForwardLoopReevaluating(_, _, _, _, _)
ForwardLoopReevaluating(f, epsilon, f0, i, acc) ==
    IF i > Len(acc.x) THEN acc
    ELSE LET c == PerturbedCopy(acc.x, i, epsilon)
             g == RatDiv(RatSub(ReF(f, c.pt), ReF(f, c.x)), RatInt(epsilon))
         IN  ForwardLoopReevaluating(f, epsilon, f0, i + 1,
                 [x |-> c.x,
                  grad |-> [acc.grad EXCEPT ![i] = g],
                  evals |-> acc.evals \o <<RealPoint(c.pt), RealPoint(c.x)>>])

\* method == 'forward': "for i in range(n)" from coordinate i on
RECURSIVE ForwardLoop(_, _, _, _, _)
ForwardLoop(f, epsilon, f0, i, acc) ==
    IF i > Len(acc.x) THEN acc
    ELSE LET c == PerturbedCopy(acc.x, i, epsilon)
             g == RatDiv(RatSub(ReF(f, c.pt), f0), RatInt(epsilon))
         IN  ForwardLoop(f, epsilon, f0, i + 1,
                 [x |-> c.x,
                  grad |-> [acc.grad EXCEPT ![i] = g],
                  evals |-> Append(acc.evals, RealPoint(c.pt))])

\* A slip: the central difference divided by epsilon instead of 2 * epsilon.
RECURSIVE CentralLoopUnhalved(_, _, _, _)
CentralLoopUnhalved(f, epsilon, i, acc) ==
    IF i > Len(acc.x) THEN acc
    ELSE LET cp == PerturbedCopy(acc.x, i, epsilon)
             cm == PerturbedCopy(cp.x, i, -epsilon)
             g == RatDiv(RatSub(ReF(f, cp.pt), ReF(f, cm.pt)), RatInt(epsilon))
         IN  CentralLoopUnhalved(f, epsilon, i + 1,
                 [x |-> cm.x,
                  grad |-> [acc.grad EXCEPT ![i] = g],
                  evals |-> acc.evals \o <<RealPoint(cp.pt), RealPoint(cm.pt)>>])

\* method == 'central': "for i in range(n)" from coordinate i on
RECURSIVE CentralLoop(_, _, _, _)
CentralLoop(f, epsilon, i, acc) ==
    IF i > Len(acc.x) THEN acc
    ELSE LET cp == PerturbedCopy(acc.x, i, epsilon)
             cm == PerturbedCopy(cp.x, i, -epsilon)
             g == RatDiv(RatSub(ReF(f, cp.pt), ReF(f, cm.pt)),
                         RatInt(2 * epsilon))
         IN  CentralLoop(f, epsilon, i + 1,
                 [x |-> cm.x,
                  grad |-> [acc.grad EXCEPT ![i] = g],
                  evals |-> acc.evals \o <<RealPoint(cp.pt), RealPoint(cm.pt)>>])

\* method == 'complex': x.astype(complex) is always a fresh array
RECURSIVE ComplexLoop(_, _, _, _)
ComplexLoop(f, epsilon, i, acc) ==
    IF i > Len(acc.x) THEN acc
    ELSE LET x_complex == [re |-> acc.x,
                           im |-> [j \in 1..Len(acc.x) |->
                                      IF j = i THEN epsilon ELSE 0]]
             g == RatDiv(ImF(f, x_complex.re, x_complex.im), RatInt(epsilon))
         IN  ComplexLoop(f, epsilon, i + 1,
                 [x |-> acc.x,
                  grad |-> [acc.grad EXCEPT ![i] = g],
                  evals |-> Append(acc.evals, x_complex)])

\* A slip: no else branch, so an unknown name falls through to "return grad".
UnknownMethodFallsThrough(x, grad) ==
    [raised |-> "none", x |-> x, grad |-> grad, evals |-> <<>>]

\* "else: raise ValueError(...)": nothing has been evaluated
UnknownMethod(x, grad) ==
    [raised |-> "ValueError", x |-> x, grad |-> grad, evals |-> <<>>]

\* finite_difference_gradient: [raised, x, grad, evals]; raised is "none"
\* when the estimate grad is returned
finite_difference_gradient(f, x, epsilon, method) ==
    LET n == Len(x)
        acc0 == [x |-> x, grad |-> [i \in 1..n |-> RatZero], evals |-> <<>>]
        returned(acc) ==
            [raised |-> "none", x |-> acc.x, grad |-> acc.grad, evals |-> acc.evals]
    IN  CASE method = "forward" ->
                LET f0 == ReF(f, x)
                IN  returned(ForwardLoop(f, epsilon, f0, 1,
                                    [acc0 EXCEPT !.evals = <<RealPoint(x)>>]))
          [] method = "central" -> returned(CentralLoop(f, epsilon, 1, acc0))
          [] method = "complex" -> returned(ComplexLoop(f, epsilon, 1, acc0))
          [] OTHER -> UnknownMethod(x, acc0.grad)

-----------------------------------------------------------------------------
(* finite_difference_hessian, lines 89-130.  acc = [x, H, evals]. *)

\* a copy of x moved along coordinates i and j: "x_pp = x.copy();
\* x_pp[i] += di; x_pp[j] += dj"
PerturbedCopy2(x, i, di, j, dj) ==
    [x |-> x, pt |-> [[x EXCEPT ![i] = @ + di] EXCEPT ![j] = @ + dj]]

\* A slip: the second difference divided by epsilon instead of epsilon**2.
RECURSIVE HessianDiagonalLoopUnsquared(_, _, _, _, _)
HessianDiagonalLoopUnsquared(f, epsilon, f0, i, acc) ==
    IF i > Len(acc.x) THEN acc
    ELSE LET k == Len(acc.evals)
             cp == PerturbedCopy(acc.x, i, epsilon)
             cm == PerturbedCopy(cp.x, i, -epsilon)
             h == RatDiv(RatAdd(RatSub(Eval(f, cp.pt, k), RatMul(RatInt(2), f0)),
                                Eval(f, cm.pt, k + 1)),
                         RatInt(epsilon))
         IN  HessianDiagonalLoopUnsquared(f, epsilon, f0, i + 1,
                 [x |-> cm.x,
                  H |-> [acc.H EXCEPT ![i][i] = h],
                  evals |-> acc.evals \o <<RealPoint(cp.pt), RealPoint(cm.pt)>>])

\* "Diagonal elements": "for i in range(n)" from coordinate i on
RECURSIVE HessianDiagonalLoop(_, _, _, _, _)
HessianDiagonalLoop(f, epsilon, f0, i, acc) ==
    IF i > Len(acc.x) THEN acc
    ELSE LET k == Len(acc.evals)
             cp == PerturbedCopy(acc.x, i, epsilon)
             cm == PerturbedCopy(cp.x, i, -epsilon)
             h == RatDiv(RatAdd(RatSub(Eval(f, cp.pt, k), RatMul(RatInt(2), f0)),
                                Eval(f, cm.pt, k + 1)),
                         RatInt(epsilon * epsilon))
         IN  HessianDiagonalLoop(f, epsilon, f0, i + 1,
                 [x |-> cm.x,
                  H |-> [acc.H EXCEPT ![i][i] = h],
                  evals |-> acc.evals \o <<RealPoint(cp.pt), RealPoint(cm.pt)>>])

\* A slip: H[j, i] estimated by four evaluations of its own instead of
\* being copied from H[i, j].
RECURSIVE HessianPairLoopRecomputed(_, _, _, _, _)
HessianPairLoopRecomputed(f, epsilon, i, j, acc) ==
    IF j > Len(acc.x) THEN acc
    ELSE LET k == Len(acc.evals)
             pp == PerturbedCopy2(acc.x, i, epsilon, j, epsilon)
             pm == PerturbedCopy2(pp.x, i, epsilon, j, -epsilon)
             mp == PerturbedCopy2(pm.x, i, -epsilon, j, epsilon)
             mm == PerturbedCopy2(mp.x, i, -epsilon, j, -epsilon)
             h == RatDiv(RatAdd(RatSub(RatSub(Eval(f, pp.pt, k), Eval(f, pm.pt, k + 1)),
                                       Eval(f, mp.pt, k + 2)),
                                Eval(f, mm.pt, k + 3)),
                         RatInt(4 * epsilon * epsilon))
             hji == RatDiv(RatAdd(RatSub(RatSub(Eval(f, pp.pt, k + 4), Eval(f, mp.pt, k + 5)),
                                         Eval(f, pm.pt, k + 6)),
                                  Eval(f, mm.pt, k + 7)),
                           RatInt(4 * epsilon * epsilon))
         IN  HessianPairLoopRecomputed(f, epsilon, i, j + 1,
                 [x |-> mm.x,
                  H |-> [acc.H EXCEPT ![i][j] = h, ![j][i] = hji],
                  evals |-> acc.evals \o <<RealPoint(pp.pt), RealPoint(pm.pt),
                                           RealPoint(mp.pt), RealPoint(mm.pt),
                                           RealPoint(pp.pt), RealPoint(mp.pt),
                                           RealPoint(pm.pt), RealPoint(mm.pt)>>])

\* "off diagonal elements": "for j in range(i+1, n)" from column j on;
\* "H[j, i] = H[i, j]" copies the entry
RECURSIVE HessianPairLoop(_, _, _, _, _)
HessianPairLoop(f, epsilon, i, j, acc) ==
    IF j > Len(acc.x) THEN acc
    ELSE LET k == Len(acc.evals)
             pp == PerturbedCopy2(acc.x, i, epsilon, j, epsilon)
             pm == PerturbedCopy2(pp.x, i, epsilon, j, -epsilon)
             mp == PerturbedCopy2(pm.x, i, -epsilon, j, epsilon)
             mm == PerturbedCopy2(mp.x, i, -epsilon, j, -epsilon)
             h == RatDiv(RatAdd(RatSub(RatSub(Eval(f, pp.pt, k), Eval(f, pm.pt, k + 1)),
                                       Eval(f, mp.pt, k + 2)),
                                Eval(f, mm.pt, k + 3)),
                         RatInt(4 * epsilon * epsilon))
         IN  HessianPairLoop(f, epsilon, i, j + 1,
                 [x |-> mm.x,
                  H |-> [acc.H EXCEPT ![i][j] = h, ![j][i] = h],
                  evals |-> acc.evals \o <<RealPoint(pp.pt), RealPoint(pm.pt),
                                           RealPoint(mp.pt), RealPoint(mm.pt)>>])

\* "for i in range(n)" of the off-diagonal part, from row i on
RECURSIVE HessianRowLoop(_, _, _, _)
HessianRowLoop(f, epsilon, i, acc) ==
    IF i > Len(acc.x) THEN acc
    ELSE HessianRowLoop(f, epsilon, i + 1,
                        HessianPairLoop(f, epsilon, i, i + 1, acc))

\* finite_difference_hessian: [x, H, evals]
finite_difference_hessian(f, x, epsilon) ==
    LET n == Len(x)
        f0 == Eval(f, x, 0)
        acc0 == [x |-> x,
                 H |-> [i \in 1..n |-> [j \in 1..n |-> RatZero]],
                 evals |-> <<RealPoint(x)>>]
    IN  HessianRowLoop(f, epsilon, 1,
                       HessianDiagonalLoop(f, epsilon, f0, 1, acc0))

\* the square of np.linalg.norm(v) for a vector of rationals
NormSq(v) == RatSum([i \in 1..Len(v) |-> RatMul(v[i], v[i])])

-----------------------------------------------------------------------------
(* directional_derivative_check, lines 168-208, for alphas the caller      *)
(* supplies.  acc = [x, errors, evals]: the caller's array, the errors     *)
(* appended so far and the points f has been evaluated at.                 *)

\* "x + alpha * d": a new array, x stays
ShiftedCopy(x, alpha, d) ==
    [x |-> x, pt |-> [i \in 1..Len(x) |-> x[i] + alpha * d[i]]]

\* "relative_error = error / diff if diff > 0 else error", line 189
TaylorError(error, diff) ==
    IF RatLess(RatZero, diff) THEN RatDiv(error, diff) ELSE error

\* A slip: the base value f(x) evaluated again for every alpha.
RECURSIVE DirectionalLoopReevaluating(_, _, _, _, _, _, _)
DirectionalLoopReevaluating(f, d, f0, directional_deriv, alphas, k, acc) ==
    IF k > Len(alphas) THEN acc
    ELSE LET alpha == alphas[k]
             c == ShiftedCopy(acc.x, alpha, d)
             f_alpha == Eval(f, c.pt, Len(acc.evals))
             f_base == Eval(f, c.x, Len(acc.evals) + 1)
             predicted == RatAdd(f_base, RatMul(RatInt(alpha), directional_deriv))
             error == RatAbs(RatSub(f_alpha, predicted))
             diff == RatAbs(RatSub(f_alpha, f_base))
         IN  DirectionalLoopReevaluating(f, d, f0, directional_deriv, alphas, k + 1,
                 [x |-> c.x,
                  errors |-> Append(acc.errors, TaylorError(error, diff)),
                  evals |-> acc.evals \o <<RealPoint(c.pt), RealPoint(c.x)>>])

\* "for alpha in alphas", lines 182-191, from the k-th alpha on
RECURSIVE DirectionalLoop(_, _, _, _, _, _, _)
DirectionalLoop(f, d, f0, directional_deriv, alphas, k, acc) ==
    IF k > Len(alphas) THEN acc
    ELSE LET alpha == alphas[k]
             c == ShiftedCopy(acc.x, alpha, d)
             f_alpha == Eval(f, c.pt, Len(acc.evals))
             predicted == RatAdd(f0, RatMul(RatInt(alpha), directional_deriv))
             error == RatAbs(RatSub(f_alpha, predicted))
             diff == RatAbs(RatSub(f_alpha, f0))
         IN  DirectionalLoop(f, d, f0, directional_deriv, alphas, k + 1,
                 [x |-> c.x,
                  errors |-> Append(acc.errors, TaylorError(error, diff)),
                  evals |-> Append(acc.evals, RealPoint(c.pt))])

\* the table of lines 200-202: one row per alpha, marked by error < 0.01
DirectionalReport(verbose, alphas, errors) ==
    IF ~verbose THEN <<>>
    ELSE [k \in 1..Len(alphas) |->
             [alpha |-> alphas[k], error |-> errors[k],
              ok |-> RatLess(errors[k], Rat(1, 100))]]

\* directional_derivative_check: [x, errors, evals, grad_evals, printed];
\* grad_x is what grad_f returns at x
directional_derivative_check(f, grad_x, x, d, alphas, verbose) ==
    LET f0 == Eval(f, x, 0)
        directional_deriv == RatSum([i \in 1..Len(x) |-> RatMul(grad_x[i], RatInt(d[i]))])
        acc == DirectionalLoop(f, d, f0, directional_deriv, alphas, 1,
                               [x |-> x, errors |-> <<>>, evals |-> <<RealPoint(x)>>])
    IN  [x |-> acc.x, errors |-> acc.errors, evals |-> acc.evals,
         grad_evals |-> <<x>>,
         printed |-> DirectionalReport(verbose, alphas, acc.errors)]

-----------------------------------------------------------------------------
(* gradient_consistency_check, lines 211-248.  A gradient function is a    *)
(* record g; GradAt is its value at its (k+1)-th call.  The draws of       *)
(* np.random.randn are the argument noise: one vector per sample.          *)

GradAt(g, x, k) ==
    CASE g.kind = "const"   -> [i \in 1..Len(x) |-> RatInt(g.v)]
      [] g.kind = "linear"  -> [i \in 1..Len(x) |-> RatInt(g.v * x[i])]
      [] g.kind = "step"    -> [i \in 1..Len(x) |-> RatInt(IF x[i] > 0 THEN 40 ELSE g.v)]
      [] g.kind = "counter" -> [i \in 1..Len(x) |-> RatInt(k * k * k + g.v)]

\* "for _ in range(n_samples)", lines 220-226, from the k-th sample on;
\* acc = [x, variations, evals], a variation carried as its square
RECURSIVE ConsistencyLoop(_, _, _, _, _, _)
ConsistencyLoop(g, epsilon, grad_base, noise, k, acc) ==
    IF k > Len(noise) THEN acc
    ELSE LET perturbation == [i \in 1..Len(acc.x) |-> epsilon * noise[k][i]]
             c == ShiftedCopy(acc.x, 1, perturbation)
             grad_perturbed == GradAt(g, c.pt, Len(acc.evals))
             diff_sq == NormSq([i \in 1..Len(acc.x) |->
                                   RatSub(grad_perturbed[i], grad_base[i])])
         IN  ConsistencyLoop(g, epsilon, grad_base, noise, k + 1,
                 [x |-> c.x,
                  variations |-> Append(acc.variations, diff_sq),
                  evals |-> Append(acc.evals, c.pt)])

\* the largest of a non-empty sequence of rationals
MaxRat(v) ==
    CHOOSE m \in {v[k] : k \in 1..Len(v)} : \A k \in 1..Len(v) : ~RatLess(m, v[k])

\* "passed = max_variation < 10 * expected_variation", lines 232-233, on
\* the squares
WithinExpectedVariation(max_variation_sq, epsilon, norm_base_sq) ==
    RatLess(max_variation_sq, RatMul(RatInt(100 * epsilon * epsilon), norm_base_sq))

\* gradient_consistency_check: [raised, passed, x, variations, evals,
\* norm_base_sq].  np.max of no variation at all raises ValueError.
gradient_consistency_check(g, x, epsilon, noise) ==
    LET grad_base == GradAt(g, x, 0)
        acc == ConsistencyLoop(g, epsilon, grad_base, noise, 1,
                               [x |-> x, variations |-> <<>>, evals |-> <<x>>])
        norm_base_sq == NormSq(grad_base)
    IN  IF Len(noise) = 0
        THEN [raised |-> "ValueError", passed |-> FALSE, x |-> acc.x,
              variations |-> acc.variations, evals |-> acc.evals,
              norm_base_sq |-> norm_base_sq]
        ELSE [raised |-> "none",
              passed |-> WithinExpectedVariation(MaxRat(acc.variations),
                                                 epsilon, norm_base_sq),
              x |-> acc.x, variations |-> acc.variations, evals |-> acc.evals,
              norm_base_sq |-> norm_base_sq]

-----------------------------------------------------------------------------
(* DerivativeChecker: check_gradient (lines 40-86), check_hessian (lines    *)
(* 133-165), and relative_error of norms.py.  A norm is carried as its      *)
(* square, a rational; a relative error is [kind, sq]: the finite value     *)
(* sqrt(sq), or infinity.                                                   *)

\* the square of np.linalg.norm(A, 'fro') for a square matrix of rationals
FrobeniusSq(A) == RatSum([i \in 1..Len(A) |-> NormSq(A[i])])

\* the largest of a non-empty sequence of naturals
MaxOf(v) == CHOOSE m \in {v[k] : k \in 1..Len(v)} : \A k \in 1..Len(v) : v[k] <= m

\* the square of norms.py vector_norm(x, 2), lines 8-20, for an integer
\* vector: 0.0 for an empty or zero vector, else the absolute values are
\* scaled by their maximum before they are squared and summed
VectorNormSq(x) ==
    IF Len(x) = 0 THEN RatZero
    ELSE LET x_abs == [k \in 1..Len(x) |-> Abs(x[k])]
             x_max == MaxOf(x_abs)
         IN  IF x_max = 0 THEN RatZero
             ELSE LET x_scaled == [k \in 1..Len(x) |-> Rat(x_abs[k], x_max)]
                  IN  RatMul(RatInt(x_max * x_max), NormSq(x_scaled))

Finite(sq) == [kind |-> "finite", sq |-> sq]
Infinite == [kind |-> "inf", sq |-> RatZero]

\* norms.py relative_error, lines 58-61: a zero reference gives inf for a
\* nonzero difference and 0.0 for none
relative_error(norm_diff_sq, norm_ref_sq) ==
    IF norm_ref_sq = RatZero
    THEN IF RatLess(RatZero, norm_diff_sq) THEN Infinite ELSE Finite(RatZero)
    ELSE Finite(RatDiv(norm_diff_sq, norm_ref_sq))

\* A slip: the zero-reference convention of norms.relative_error used in
\* the checkers.
CheckerRelativeErrorInfinite(norm_diff_sq, norm_analytical_sq) ==
    relative_error(norm_diff_sq, norm_analytical_sq)

\* "if norm_analytical > 0: relative_error = norm_diff / norm_analytical
\*  else: relative_error = norm_diff", lines 55-58 and 145-148
CheckerRelativeError(norm_diff_sq, norm_analytical_sq) ==
    IF RatLess(RatZero, norm_analytical_sq)
    THEN Finite(RatDiv(norm_diff_sq, norm_analytical_sq))
    ELSE Finite(norm_diff_sq)

\* "passed = relative_error < tol", for a tolerance tol > 0
Passed(rel, tol) ==
    /\ rel.kind = "finite"
    /\ RatLess(rel.sq, RatMul(tol, tol))

\* A slip: of several largest |diff[i]| the last one taken.
ArgMaxAbsLast(diff) ==
    CHOOSE k \in 1..Len(diff) :
        /\ \A j \in 1..Len(diff) : ~RatLess(RatAbs(diff[k]), RatAbs(diff[j]))
        /\ \A j \in (k + 1)..Len(diff) : RatLess(RatAbs(diff[j]), RatAbs(diff[k]))

\* np.argmax(abs_diff): the first index of the largest |diff[i]|, counted
\* from 1 here and from 0 in the program
ArgMaxAbs(diff) ==
    CHOOSE k \in 1..Len(diff) :
        /\ \A j \in 1..Len(diff) : ~RatLess(RatAbs(diff[k]), RatAbs(diff[j]))
        /\ \A j \in 1..(k - 1) : RatLess(RatAbs(diff[j]), RatAbs(diff[k]))

\* the report of check_gradient, lines 62-84: nothing unless verbose; the
\* worst component only for a failed check with a nonzero difference
GradientReport(verbose, passed, norm_diff_sq, grad_analytical, grad_numerical, diff) ==
    IF ~verbose THEN <<>>
    ELSE <<[line |-> "Status", passed |-> passed]>>
         \o (IF ~passed /\ RatLess(RatZero, norm_diff_sq)
             THEN LET worst_idx == ArgMaxAbs(diff)
                  IN  <<[line |-> "Worst component", index |-> worst_idx,
                         analytical |-> grad_analytical[worst_idx],
                         numerical |-> grad_numerical[worst_idx],
                         difference |-> diff[worst_idx]]>>
             ELSE <<>>)

\* the report of check_hessian, lines 152-163
HessianReport(verbose, passed) ==
    IF ~verbose THEN <<>> ELSE <<[line |-> "Status", passed |-> passed]>>

\* check_gradient: what it returns (or raises) and prints
check_gradient(f, grad_analytical, x, epsilon, tol, method, verbose) ==
    LET r == finite_difference_gradient(f, x, epsilon, method)
    IN  IF r.raised # "none"
        THEN [raised |-> r.raised, passed |-> FALSE, relative_error |-> Finite(RatZero),
              printed |-> <<>>, numerical |-> r.grad,
              norm_diff_sq |-> RatZero, norm_analytical_sq |-> RatZero]
        ELSE LET grad_numerical == r.grad
                 diff == [k \in 1..Len(x) |->
                             RatSub(grad_analytical[k], grad_numerical[k])]
                 norm_diff_sq == NormSq(diff)
                 norm_analytical_sq == NormSq(grad_analytical)
                 rel == CheckerRelativeError(norm_diff_sq, norm_analytical_sq)
                 passed == Passed(rel, tol)
             IN  [raised |-> "none", passed |-> passed, relative_error |-> rel,
                  printed |-> GradientReport(verbose, passed, norm_diff_sq,
                                             grad_analytical, grad_numerical, diff),
                  numerical |-> grad_numerical,
                  norm_diff_sq |-> norm_diff_sq,
                  norm_analytical_sq |-> norm_analytical_sq]

\* A slip: the verdict formed inside the "if verbose:" block, so that a
\* silent check never passes.
CheckHessianVerdictInReport(f, hess_analytical, x, epsilon, tol, verbose) ==
    LET n == Len(x)
        hess_numerical == finite_difference_hessian(f, x, epsilon).H
        diff == [k \in 1..n |-> [l \in 1..n |->
                    RatSub(hess_analytical[k][l], hess_numerical[k][l])]]
        norm_diff_sq == FrobeniusSq(diff)
        norm_analytical_sq == FrobeniusSq(hess_analytical)
        rel == CheckerRelativeError(norm_diff_sq, norm_analytical_sq)
        passed == verbose /\ Passed(rel, tol)
    IN  [raised |-> "none", passed |-> passed, relative_error |-> rel,
         printed |-> HessianReport(verbose, passed),
         numerical |-> hess_numerical,
         norm_diff_sq |-> norm_diff_sq,
         norm_analytical_sq |-> norm_analytical_sq]

\* check_hessian: what it returns and prints
check_hessian(f, hess_analytical, x, epsilon, tol, verbose) ==
    LET n == Len(x)
        hess_numerical == finite_difference_hessian(f, x, epsilon).H
        diff == [k \in 1..n |-> [l \in 1..n |->
                    RatSub(hess_analytical[k][l], hess_numerical[k][l])]]
        norm_diff_sq == FrobeniusSq(diff)
        norm_analytical_sq == FrobeniusSq(hess_analytical)
        rel == CheckerRelativeError(norm_diff_sq, norm_analytical_sq)
        passed == Passed(rel, tol)
    IN  [raised |-> "none", passed |-> passed, relative_error |-> rel,
         printed |-> HessianReport(verbose, passed),
         numerical |-> hess_numerical,
         norm_diff_sq |-> norm_diff_sq,
         norm_analytical_sq |-> norm_analytical_sq]

-----------------------------------------------------------------------------
(* Inputs of the derivative pipeline. *)

Dims == 0..MaxDim
CoordVals == {-1, 0, 1}
CoefVals == {-1, 0, 2}
QVals == {0, 1}
OffsetVals == {0, 3}
Points(n) == [1..n -> CoordVals]
Epsilons == 1..MaxEps
\* the three schemes and two names that are none of them
Methods == {"forward", "central", "complex", "backward", ""}

SymmetricMatrices(n) ==
    {Q \in [1..n -> [1..n -> QVals]] :
        \A i \in 1..n, j \in 1..n : Q[i][j] = Q[j][i]}

AffineFuncs(n) ==
    {[kind |-> "affine", a |-> a, b |-> b, Q |-> <<>>] :
        a \in [1..n -> CoefVals], b \in OffsetVals}
QuadFuncs(n) ==
    {[kind |-> "quad", a |-> <<>>, b |-> 0, Q |-> Q] : Q \in SymmetricMatrices(n)}
OtherFuncs ==
    {[kind |-> k, a |-> <<>>, b |-> 0, Q |-> <<>>] : k \in {"cubic", "abs"}}
Funcs(n) == AffineFuncs(n) \cup QuadFuncs(n) \cup OtherFuncs

-----------------------------------------------------------------------------
(* Inputs of the complexity pipeline. *)

DescriptorChars == {"n", "^", "2", "3"}
DescriptorsOfLength(k) == [1..k -> DescriptorChars]
\* every string over the alphabet up to MaxDescLen, and some longer ones
Descriptors ==
    UNION {DescriptorsOfLength(k) : k \in 0..MaxDescLen}
    \cup {<<"n", " ", "l", "o", "g", " ", "n">>,
          <<"O", "(", "n", "^", "3", ")">>,
          <<"O", "(", "n", ")">>,
          <<"n", "^", "4">>,
          <<"n", "^", "2", "+", "n", "^", "3">>,
          <<"l", "i", "n", "e", "a", "r">>,
          <<"2", "^", "n">>}

SizeVals == {2, 8}
SizeSweeps == UNION {[1..k -> SizeVals] : k \in 0..MaxSizes}
\* what one timed repetition can measure: a tick count, 0 when the
\* operation is faster than the clock resolves
ElapsedVals == {0, 1, 8, 64}
Tolerances == {<<3, 10>>, <<1, 2>>, <<1, 1>>}

-----------------------------------------------------------------------------
(* Calls of verify_complexity.  Its estimate_complexity call runs          *)
(* n_runs = 3 repetitions per size, so each median is one of the measured  *)
(* times.                                                                  *)

VerifyInit ==
    /\ chk = ChkIdle
    /\ scope = ScopeIdle
    /\ TimingIdle
    /\ vc = VcIdle
    /\ flop = FlopIdle
    /\ fd = FdIdle

\* the descriptor selects no exponent: ValueError before anything is timed
VerifyRaises ==
    /\ vc.op = "none"
    /\ \E d \in Descriptors, tolerance \in Tolerances, sizes \in SizeSweeps :
         /\ ParseComplexity(d) = 0
         /\ vc' = [op |-> "verify_complexity", expected_complexity |-> d,
                   tolerance |-> tolerance, sizes |-> sizes,
                   expected_exp |-> 0, times |-> <<>>, func_calls |-> 0,
                   fit |-> [kind |-> "none", value |-> RatZero],
                   raised |-> "ValueError", matches |-> FALSE]
    /\ UNCHANGED vcOthers

\* the descriptor parses; the estimate is run and compared
VerifyEstimates ==
    /\ vc.op = "none"
    /\ \E d \in Descriptors, tolerance \in Tolerances, sizes \in SizeSweeps :
         /\ ParseComplexity(d) # 0
         /\ \E measured \in [1..Len(sizes) -> ElapsedVals] :
              LET medians == [i \in 1..Len(sizes) |-> RatInt(measured[i])]
              IN  \E fit \in FitOutcomes(sizes, medians) :
                  \E verdict \in Verdicts(fit, ParseComplexity(d), tolerance) :
                     vc' = [op |-> "verify_complexity", expected_complexity |-> d,
                            tolerance |-> tolerance, sizes |-> sizes,
                            expected_exp |-> ParseComplexity(d),
                            times |-> medians,
                            func_calls |-> DefaultRuns * Len(sizes),
                            fit |-> fit,
                            raised |-> IF fit.kind = "LinAlgError"
                                       THEN "LinAlgError" ELSE "none",
                            matches |-> fit.kind # "LinAlgError" /\ verdict]
    /\ UNCHANGED vcOthers

VerifyReturn ==
    /\ vc.op # "none"
    /\ vc' = VcIdle
    /\ UNCHANGED vcOthers

VerifyNext ==
    \/ VerifyRaises
    \/ VerifyEstimates
    \/ VerifyReturn

SpecVerify == VerifyInit /\ [][VerifyNext]_vars

-----------------------------------------------------------------------------
(* Calls of estimate_complexity and benchmark_operation, step by step. *)

RunCounts == 1..MaxRuns
Operations == {"dot_product", "matvec", "matmul", "lu"}

TimingInit ==
    /\ chk = ChkIdle
    /\ scope = ScopeIdle
    /\ TimingIdle
    /\ flop = FlopIdle
    /\ fd = FdIdle
    /\ vc = VcIdle

\* estimate_complexity(func, sizes, setup_func, n_runs), lines 88-89
EstimateEnter ==
    /\ pc = "idle"
    /\ \E sizes \in SizeSweeps, n_runs \in RunCounts :
         tm' = [entry |-> "estimate_complexity", sizes |-> sizes,
                n_runs |-> n_runs, operation |-> "", flops |-> 0]
    /\ pc' = "size"
    /\ i_size' = 1
    /\ times' = <<>>
    /\ UNCHANGED <<run_times, timers, counts, ret>>
    /\ UNCHANGED timingOthers

\* "for i, size in enumerate(sizes)": the next size, or the fit
NextSize ==
    /\ pc = "size"
    /\ IF i_size <= Len(tm.sizes)
       THEN /\ pc' = "run"
            /\ run_times' = <<>>
            /\ counts' = NoCounts
       ELSE /\ pc' = "fit"
            /\ UNCHANGED <<run_times, counts>>
    /\ UNCHANGED <<tm, i_size, times, timers, ret>>
    /\ UNCHANGED timingOthers

\* "for _ in range(n_runs)": the next repetition, or the median
NextRun ==
    /\ pc = "run"
    /\ pc' = IF RepetitionsLeft(tm.n_runs, Len(run_times))
             THEN StepAfter(tm.entry, "run") ELSE "median"
    /\ UNCHANGED <<tm, i_size, run_times, times, timers, counts, ret>>
    /\ UNCHANGED timingOthers

\* "problem = setup_func(size)"
Setup ==
    /\ pc = "setup"
    /\ counts' = [counts EXCEPT !.setup = @ + 1]
    /\ pc' = StepAfter(tm.entry, "setup")
    /\ UNCHANGED <<tm, i_size, run_times, times, timers, ret>>
    /\ UNCHANGED timingOthers

\* "start = time.perf_counter()"
StartTimer ==
    /\ pc = "start"
    /\ timers' = timers + 1
    /\ pc' = StepAfter(tm.entry, "start")
    /\ UNCHANGED <<tm, i_size, run_times, times, counts, ret>>
    /\ UNCHANGED timingOthers

\* "func(*problem)" / "func()"
CallFunc ==
    /\ pc = "call"
    /\ counts' = [counts EXCEPT !.func = @ + 1,
                                !.timed = @ + (IF timers > 0 THEN 1 ELSE 0)]
    /\ pc' = StepAfter(tm.entry, "call")
    /\ UNCHANGED <<tm, i_size, run_times, times, timers, ret>>
    /\ UNCHANGED timingOthers

\* "elapsed = time.perf_counter() - start; run_times.append(elapsed)"
StopTimer ==
    /\ pc = "stop"
    /\ \E elapsed \in ElapsedVals :
         run_times' = Append(run_times, RatInt(elapsed))
    /\ timers' = timers - 1
    /\ pc' = StepAfter(tm.entry, "stop")
    /\ UNCHANGED <<tm, i_size, times, counts, ret>>
    /\ UNCHANGED timingOthers

\* "times[i] = np.median(run_times)" / "median_time = np.median(times)"
TakeMedian ==
    /\ pc = "median"
    /\ times' = Append(times, Median(run_times))
    /\ i_size' = i_size + 1
    /\ pc' = IF tm.entry = "estimate_complexity" THEN "size" ELSE "report"
    /\ UNCHANGED <<tm, run_times, timers, counts, ret>>
    /\ UNCHANGED timingOthers

\* lines 105-115: the log-log fit and the return of estimate_complexity
FitAndReturn ==
    /\ pc = "fit"
    /\ \E fit \in Fit(tm.sizes, times) :
         ret' = [raised |-> IF fit.kind \in {"LinAlgError", "InsufficientSamples"}
                            THEN fit.kind ELSE "none",
                 fit |-> fit, sizes |-> tm.sizes, times |-> times]
    /\ pc' = "done"
    /\ UNCHANGED <<tm, i_size, run_times, times, timers, counts>>
    /\ UNCHANGED timingOthers

\* benchmark_operation(operation, n, n_runs), lines 187-207: the problem is
\* generated, or the operation is unknown
BenchmarkEnter ==
    /\ pc = "idle"
    /\ \E operation \in Operations, n \in SizeVals, n_runs \in RunCounts :
         /\ tm' = [entry |-> "benchmark_operation", sizes |-> <<n>>,
                   n_runs |-> n_runs, operation |-> operation,
                   flops |-> BenchmarkFlops(operation, n)]
         /\ IF BenchmarkFlops(operation, n) < 0
            THEN /\ pc' = "done"
                 /\ ret' = [raised |-> "ValueError"]
                 /\ counts' = NoCounts
            ELSE /\ pc' = "warmup"
                 /\ ret' = NoReturn
                 /\ counts' = [NoCounts EXCEPT !.setup = 1]
    /\ i_size' = 1
    /\ times' = <<>>
    /\ run_times' = <<>>
    /\ UNCHANGED timers
    /\ UNCHANGED timingOthers

\* "# warm-up": func() outside any interval, its time not taken
WarmUp ==
    /\ pc = "warmup"
    /\ counts' = [counts EXCEPT !.func = @ + 1,
                                !.timed = @ + (IF timers > 0 THEN 1 ELSE 0)]
    /\ pc' = StepAfter(tm.entry, "warmup")
    /\ UNCHANGED <<tm, i_size, run_times, times, timers, ret>>
    /\ UNCHANGED timingOthers

\* lines 221-229: the record benchmark_operation returns
Report ==
    /\ pc = "report"
    /\ ret' = [raised |-> "none", operation |-> tm.operation,
               size |-> tm.sizes[1], flops |-> tm.flops,
               time_seconds |-> times[1],
               gflops |-> compute_gflops(tm.flops, times[1])]
    /\ pc' = "done"
    /\ UNCHANGED <<tm, i_size, run_times, times, timers, counts>>
    /\ UNCHANGED timingOthers

\* the caller has the result; the next call starts afresh
TimingReturn ==
    /\ pc = "done"
    /\ tm' = TmIdle
    /\ pc' = "idle"
    /\ i_size' = 0
    /\ run_times' = <<>>
    /\ times' = <<>>
    /\ timers' = 0
    /\ counts' = NoCounts
    /\ ret' = NoReturn
    /\ UNCHANGED timingOthers

TimingNext ==
    \/ EstimateEnter
    \/ NextSize
    \/ NextRun
    \/ Setup
    \/ StartTimer
    \/ CallFunc
    \/ StopTimer
    \/ TakeMedian
    \/ FitAndReturn
    \/ BenchmarkEnter
    \/ WarmUp
    \/ Report
    \/ TimingReturn

SpecTiming == TimingInit /\ [][TimingNext]_vars

-----------------------------------------------------------------------------
(* Calls of check_gradient, check_hessian and norms.relative_error. *)

CheckCoords == {0, 1}
CheckPoints(n) == [1..n -> CheckCoords]
\* what the analytic derivative handed to a checker can return at x
AnalyticVals == {0, 2}
AnalyticGradients(n) == [1..n -> {RatInt(v) : v \in AnalyticVals}]
AnalyticHessians(n) ==
    {[k \in 1..n |-> [l \in 1..n |-> RatInt(IF k = l THEN d ELSE o)]] :
        d \in {0, 1}, o \in {0, 1}}
CheckFuncs(n) ==
    {f \in AffineFuncs(n) : f.b = 0 /\ \A k \in 1..n : f.a[k] \in AnalyticVals}
    \cup {f \in QuadFuncs(n) :
            \A k \in 1..n, l \in 1..n :
                /\ f.Q[k][k] = f.Q[l][l]
                /\ (k # l => f.Q[k][l] = f.Q[1][n])}
    \cup OtherFuncs
CheckMethods == {"forward", "central", "backward"}
CheckTols == {<<1, 2>>, <<2, 1>>}

CheckInit ==
    /\ chk = ChkIdle
    /\ scope = ScopeIdle
    /\ TimingIdle
    /\ flop = FlopIdle
    /\ fd = FdIdle
    /\ vc = VcIdle

CallCheckGradient ==
    /\ chk.op = "none"
    /\ \E n \in Dims :
       \E f \in CheckFuncs(n), x \in CheckPoints(n), epsilon \in Epsilons,
          grad_analytical \in AnalyticGradients(n), tol \in CheckTols,
          method \in CheckMethods, verbose \in BOOLEAN :
       \E r \in {check_gradient(f, grad_analytical, x, epsilon, tol, method, verbose)} :
             chk' = [op |-> "check_gradient", f |-> f, x |-> x,
                     epsilon |-> epsilon, analytical |-> grad_analytical,
                     tol |-> tol, method |-> method, verbose |-> verbose,
                     raised |-> r.raised, passed |-> r.passed,
                     relative_error |-> r.relative_error,
                     printed |-> r.printed, numerical |-> r.numerical,
                     norm_diff_sq |-> r.norm_diff_sq,
                     norm_analytical_sq |-> r.norm_analytical_sq]
    /\ UNCHANGED chkOthers

CallCheckHessian ==
    /\ chk.op = "none"
    /\ \E n \in Dims :
       \E f \in CheckFuncs(n), x \in CheckPoints(n), epsilon \in Epsilons,
          hess_analytical \in AnalyticHessians(n), tol \in CheckTols,
          verbose \in BOOLEAN :
       \E r \in {check_hessian(f, hess_analytical, x, epsilon, tol, verbose)} :
             chk' = [op |-> "check_hessian", f |-> f, x |-> x,
                     epsilon |-> epsilon, analytical |-> hess_analytical,
                     tol |-> tol, method |-> "central", verbose |-> verbose,
                     raised |-> r.raised, passed |-> r.passed,
                     relative_error |-> r.relative_error,
                     printed |-> r.printed, numerical |-> r.numerical,
                     norm_diff_sq |-> r.norm_diff_sq,
                     norm_analytical_sq |-> r.norm_analytical_sq]
    /\ UNCHANGED chkOthers

\* norms.relative_error(x, x_ref) on two vectors, p = 2
CallRelativeError ==
    /\ chk.op = "none"
    /\ \E n \in Dims : \E x \in Points(n), x_ref \in CheckPoints(n) :
         LET norm_diff_sq == VectorNormSq([k \in 1..n |-> x[k] - x_ref[k]])
             norm_ref_sq == VectorNormSq(x_ref)
         IN  chk' = [op |-> "relative_error", x |-> x, x_ref |-> x_ref,
                     raised |-> "none",
                     relative_error |-> relative_error(norm_diff_sq, norm_ref_sq),
                     norm_diff_sq |-> norm_diff_sq,
                     norm_ref_sq |-> norm_ref_sq]
    /\ UNCHANGED chkOthers

CheckReturn ==
    /\ chk.op # "none"
    /\ chk' = ChkIdle
    /\ UNCHANGED chkOthers

CheckNext ==
    \/ CallCheckGradient
    \/ CallCheckHessian
    \/ CallRelativeError
    \/ CheckReturn

SpecCheck == CheckInit /\ [][CheckNext]_vars

-----------------------------------------------------------------------------
(* Calls of finite_difference_gradient. *)

GradInit ==
    /\ chk = ChkIdle
    /\ scope = ScopeIdle
    /\ TimingIdle
    /\ fd = FdIdle
    /\ flop = FlopIdle
    /\ vc = VcIdle

CallGradient ==
    /\ fd.op = "none"
    /\ \E n \in Dims : \E f \in Funcs(n), x \in Points(n),
                         epsilon \in Epsilons, method \in Methods :
       \E r \in {finite_difference_gradient(f, x, epsilon, method)} :
             fd' = [op |-> "finite_difference_gradient",
                    f |-> f, x0 |-> x, epsilon |-> epsilon, method |-> method,
                    raised |-> r.raised, x |-> r.x, grad |-> r.grad,
                    evals |-> r.evals]
    /\ UNCHANGED fdOthers

\* a function whose value depends on how often it has been called
CounterFunc == [kind |-> "counter", a |-> <<>>, b |-> 0, Q |-> <<>>]
HessianFuncs(n) == QuadFuncs(n) \cup OtherFuncs \cup {CounterFunc}

CallHessian ==
    /\ fd.op = "none"
    /\ \E n \in Dims : \E f \in HessianFuncs(n), x \in Points(n), epsilon \in Epsilons :
       \E r \in {finite_difference_hessian(f, x, epsilon)} :
             fd' = [op |-> "finite_difference_hessian",
                    f |-> f, x0 |-> x, epsilon |-> epsilon,
                    raised |-> "none", x |-> r.x, H |-> r.H, evals |-> r.evals]
    /\ UNCHANGED fdOthers

\* step sizes alpha, 0 included: a step that moves nothing
AlphaVals == {0, 1, 2}
AlphaSweeps == UNION {[1..k -> AlphaVals] : k \in 0..MaxAlphas}
\* directions d, up to sign
Directions(n) == {d \in [1..n -> {-1, 1}] : n >= 1 => d[1] = 1}
UniformGradients(n) == {[k \in 1..n |-> RatInt(v)] : v \in AnalyticVals}
UniformPoints(n) == {[k \in 1..n |-> c] : c \in CheckCoords}
DirectionalFuncs(n) ==
    {f \in AffineFuncs(n) : f.b = 3 /\ \E v \in AnalyticVals : \A k \in 1..n : f.a[k] = v}
    \cup {f \in QuadFuncs(n) :
            \A k \in 1..n, l \in 1..n : f.Q[k][l] = (IF k = l THEN 1 ELSE 0)}
    \cup OtherFuncs \cup {CounterFunc}

CallDirectional ==
    /\ fd.op = "none"
    /\ \E n \in Dims :
       \E f \in DirectionalFuncs(n), x \in CheckPoints(n), d \in Directions(n),
          grad_x \in UniformGradients(n), alphas \in AlphaSweeps, verbose \in BOOLEAN :
       \E r \in {directional_derivative_check(f, grad_x, x, d, alphas, verbose)} :
             fd' = [op |-> "directional_derivative_check",
                    f |-> f, x0 |-> x, d |-> d, grad_x |-> grad_x,
                    alphas |-> alphas, verbose |-> verbose,
                    raised |-> "none", x |-> r.x, errors |-> r.errors,
                    evals |-> r.evals, grad_evals |-> r.grad_evals,
                    printed |-> r.printed]
    /\ UNCHANGED fdOthers

\* what one coordinate of a draw of randn is, as a multiple of epsilon
NoiseVals == {0, 1}
GradFuncs ==
    {[kind |-> "const", v |-> v] : v \in AnalyticVals}
    \cup {[kind |-> k, v |-> 2] : k \in {"linear", "step"}}
    \cup {[kind |-> "counter", v |-> 0]}

CallConsistency ==
    /\ fd.op = "none"
    /\ \E n \in Dims :
       \E g \in GradFuncs, x \in UniformPoints(n), epsilon \in Epsilons,
          n_samples \in 0..MaxSamples :
       \E noise \in [1..n_samples -> [1..n -> NoiseVals]] :
       \E r \in {gradient_consistency_check(g, x, epsilon, noise)} :
             fd' = [op |-> "gradient_consistency_check",
                    g |-> g, x0 |-> x, epsilon |-> epsilon,
                    n_samples |-> n_samples, noise |-> noise,
                    raised |-> r.raised, passed |-> r.passed, x |-> r.x,
                    variations |-> r.variations, evals |-> r.evals,
                    norm_base_sq |-> r.norm_base_sq]
    /\ UNCHANGED fdOthers

GradReturn ==
    /\ fd.op # "none"
    /\ fd' = FdIdle
    /\ UNCHANGED fdOthers

GradNext ==
    \/ CallGradient
    \/ CallHessian
    \/ CallDirectional
    \/ CallConsistency
    \/ GradReturn

SpecGrad == GradInit /\ [][GradNext]_vars

-----------------------------------------------------------------------------
(* Timer (utils/timing.py, lines 8-21) and FlopCounter (implementation.py,  *)
(* lines 231-259) used as context managers.  scope.timer and scope.counter  *)
(* hold the object's fields, where its with-block stands (at), how the      *)
(* block was left (left_by) and whether the caller saw an error             *)
(* (propagated).  recorded and after are the increments asked of the        *)
(* counter since it was last entered: inside the block and after it.        *)

\* how a with-block is left
ExitPaths == {"normal", "return", "raise"}

\* Timer.__init__
TimerNew(t) == [t EXCEPT !.start_time = None, !.elapsed = None]

\* Timer.__enter__: "self.start_time = time.perf_counter()"
TimerEnter(t, now) == [t EXCEPT !.start_time = <<now>>]

\* A slip: __exit__ returning True, which tells Python to swallow the
\* error of the block.
TimerExitSwallowing(t, now) ==
    LET elapsed == now - t.start_time[1]
    IN  [self |-> [t EXCEPT !.elapsed = <<elapsed>>, !.printed = <<elapsed>>],
         value |-> "True"]

\* Timer.__exit__: elapsed set and printed; no return statement, so the
\* value is None
TimerExit(t, now) ==
    LET elapsed == now - t.start_time[1]
    IN  [self |-> [t EXCEPT !.elapsed = <<elapsed>>, !.printed = <<elapsed>>],
         value |-> "None"]

\* the with statement: an error of the block reaches the caller unless
\* __exit__ returned a true value
Propagates(how, value) == how = "raise" /\ value # "True"

\* FlopCounter.__init__ and FlopCounter.__enter__: "self.count = 0"
FlopCounterNew(c) == [c EXCEPT !.count = 0]
FlopCounterEnter(c) == [c EXCEPT !.count = 0]

\* FlopCounter.__exit__: "pass"
FlopCounterExit(c) == [self |-> c, value |-> "None"]

CounterOps == {"add", "multiply", "divide", "sqrt", "dot", "matvec"}

\* what one call of a FlopCounter method adds to count
Increment(op, m, n) ==
    CASE op \in {"add", "multiply", "divide", "sqrt"} -> 1
      [] op = "dot" -> 2 * n
      [] op = "matvec" -> count_matvec_flops(m, n)

ScopeInit ==
    /\ chk = ChkIdle
    /\ scope = ScopeIdle
    /\ TimingIdle
    /\ flop = FlopIdle
    /\ fd = FdIdle
    /\ vc = VcIdle

\* time passes
Tick ==
    /\ scope.clock < MaxClock
    /\ scope' = [scope EXCEPT !.clock = @ + 1]
    /\ UNCHANGED scopeOthers

TimerConstruct ==
    /\ scope.timer.at = "none"
    /\ scope' = [scope EXCEPT !.timer = [TimerNew(@) EXCEPT !.at = "created"]]
    /\ UNCHANGED scopeOthers

\* "with timer:" reached, for the first time or again
TimerEnterScope ==
    /\ scope.timer.at \in {"created", "left"}
    /\ scope' = [scope EXCEPT !.timer =
                    [TimerEnter(@, scope.clock) EXCEPT
                        !.at = "inside", !.left_by = "none", !.propagated = FALSE]]
    /\ UNCHANGED scopeOthers

\* the block ends, returns early or raises: __exit__ runs
TimerLeaveScope ==
    /\ scope.timer.at = "inside"
    /\ \E how \in ExitPaths :
       \E r \in {TimerExit(scope.timer, scope.clock)} :
         scope' = [scope EXCEPT !.timer =
                      [r.self EXCEPT !.at = "left", !.left_by = how,
                                     !.propagated = Propagates(how, r.value)]]
    /\ UNCHANGED scopeOthers

CounterConstruct ==
    /\ scope.counter.at = "none"
    /\ scope' = [scope EXCEPT !.counter = [FlopCounterNew(@) EXCEPT !.at = "created"]]
    /\ UNCHANGED scopeOthers

CounterEnterScope ==
    /\ scope.counter.at \in {"created", "left"}
    /\ scope' = [scope EXCEPT !.counter =
                    [FlopCounterEnter(@) EXCEPT
                        !.at = "inside", !.recorded = 0, !.after = 0,
                        !.left_by = "none", !.propagated = FALSE]]
    /\ UNCHANGED scopeOthers

\* add(), multiply(), divide(), sqrt(), dot(n) or matvec(m, n), on a
\* counter that is inside its block or not
CounterRecord ==
    /\ scope.counter.at # "none"
    /\ \E op \in CounterOps, m \in 1..2, n \in 1..2 :
         LET inc == Increment(op, m, n)
         IN  /\ scope.counter.count + inc <= MaxCount
             /\ scope' = [scope EXCEPT
                    !.counter.count = @ + inc,
                    !.counter.recorded =
                        IF scope.counter.at = "inside" THEN @ + inc ELSE @,
                    !.counter.after =
                        IF scope.counter.at = "left" THEN @ + inc ELSE @]
    /\ UNCHANGED scopeOthers

CounterLeaveScope ==
    /\ scope.counter.at = "inside"
    /\ \E how \in ExitPaths :
       \E r \in {FlopCounterExit(scope.counter)} :
         scope' = [scope EXCEPT !.counter =
                      [r.self EXCEPT !.at = "left", !.left_by = how,
                                     !.propagated = Propagates(how, r.value)]]
    /\ UNCHANGED scopeOthers

ScopeNext ==
    \/ Tick
    \/ TimerConstruct
    \/ TimerEnterScope
    \/ TimerLeaveScope
    \/ CounterConstruct
    \/ CounterEnterScope
    \/ CounterRecord
    \/ CounterLeaveScope

SpecScope == ScopeInit /\ [][ScopeNext]_vars

FlopDims == 0..MaxFlopDim

FlopInit ==
    /\ chk = ChkIdle
    /\ scope = ScopeIdle
    /\ TimingIdle
    /\ flop = FlopIdle
    /\ fd = FdIdle
    /\ vc = VcIdle

CallDotProduct ==
    /\ flop.op = "none"
    /\ \E n \in FlopDims :
         flop' = [op |-> "dot_product", m |-> 0, n |-> n, k |-> 0,
                  result |-> count_dot_product_flops(n)]
    /\ UNCHANGED flopOthers

CallMatvec ==
    /\ flop.op = "none"
    /\ \E m \in FlopDims, n \in FlopDims :
         flop' = [op |-> "matvec", m |-> m, n |-> n, k |-> 0,
                  result |-> count_matvec_flops(m, n)]
    /\ UNCHANGED flopOthers

CallMatmul ==
    /\ flop.op = "none"
    /\ \E m \in FlopDims, n \in FlopDims, k \in FlopDims :
         flop' = [op |-> "matmul", m |-> m, n |-> n, k |-> k,
                  result |-> count_matmul_flops(m, n, k)]
    /\ UNCHANGED flopOthers

CallTriangularSolve ==
    /\ flop.op = "none"
    /\ \E n \in FlopDims :
         flop' = [op |-> "triangular_solve", m |-> 0, n |-> n, k |-> 0,
                  result |-> count_triangular_solve_flops(n)]
    /\ UNCHANGED flopOthers

CallLu ==
    /\ flop.op = "none"
    /\ \E n \in FlopDims :
         flop' = [op |-> "lu", m |-> 0, n |-> n, k |-> 0,
                  result |-> count_lu_flops(n)]
    /\ UNCHANGED flopOthers

CallCholesky ==
    /\ flop.op = "none"
    /\ \E n \in FlopDims :
         flop' = [op |-> "cholesky", m |-> 0, n |-> n, k |-> 0,
                  result |-> count_cholesky_flops(n)]
    /\ UNCHANGED flopOthers

CallQr ==
    /\ flop.op = "none"
    /\ \E m \in FlopDims, n \in FlopDims :
         flop' = [op |-> "qr", m |-> m, n |-> n, k |-> 0,
                  result |-> count_qr_flops(m, n)]
    /\ UNCHANGED flopOthers

\* the caller takes the count; the model is ready for the next call
FlopReturn ==
    /\ flop.op # "none"
    /\ flop' = FlopIdle
    /\ UNCHANGED flopOthers

FlopNext ==
    \/ CallDotProduct
    \/ CallMatvec
    \/ CallMatmul
    \/ CallTriangularSolve
    \/ CallLu
    \/ CallCholesky
    \/ CallQr
    \/ FlopReturn

SpecFlop == FlopInit /\ [][FlopNext]_vars

-----------------------------------------------------------------------------
(* Claims about the FlopModel. *)

PivotStepCost(n, k) == (n - k) + 2 * (n - k) * (n - k)

\* the sum of PivotStepCost(n, j) over the pivot steps j = 0..k
RECURSIVE PivotStepSumTo(_, _)
PivotStepSumTo(n, k) ==
    IF k < 0 THEN 0 ELSE PivotStepSumTo(n, k - 1) + PivotStepCost(n, k)

PivotStepSum(n) == PivotStepSumTo(n, n - 2)

\* C1: for every n >= 2, count_cholesky_flops(n) is the integer floor of
\* half the sum over pivot steps k = 0..n-2 of (n-k) + 2*(n-k)^2: twice the
\* Cholesky count is that sum or that sum less one.
C1_CholeskyIsFloorOfHalfLu ==
    (flop.op = "cholesky" /\ flop.n >= 2) =>
        /\ 2 * flop.result <= PivotStepSum(flop.n)
        /\ PivotStepSum(flop.n) < 2 * flop.result + 2
        /\ PivotStepSum(flop.n) = count_lu_flops(flop.n)

\* a Cholesky count of an odd LU count (n = 3: LU = 31, Cholesky = 15)
C1_Witness ==
    /\ flop.op = "cholesky"
    /\ flop.n >= 2
    /\ PivotStepSum(flop.n) % 2 = 1
    /\ flop.result = 15

-----------------------------------------------------------------------------
(* Claims about finite_difference_gradient. *)

GradientCalled == fd.op = "finite_difference_gradient"
KnownMethods == {"forward", "central", "complex"}

\* C8: a method name that is none of forward, central, complex makes
\* finite_difference_gradient raise ValueError instead of returning an
\* estimate, with f evaluated at no point.
C8_UnknownMethodRaisesUnevaluated ==
    (GradientCalled /\ fd.method \notin KnownMethods) =>
        /\ fd.raised = "ValueError"
        /\ fd.evals = <<>>

\* an unknown scheme asked of a non-empty point
C8_Witness ==
    /\ GradientCalled
    /\ fd.method = "backward"
    /\ Len(fd.x0) = MaxDim
    /\ fd.raised = "ValueError"

\* p is x moved along coordinate i only: by re in its real part and by im
\* in its imaginary part
MovedAlong(p, x, i, re, im) ==
    /\ p.re = [x EXCEPT ![i] = @ + re]
    /\ p.im = [j \in 1..Len(x) |-> IF j = i THEN im ELSE 0]

\* C9: for a point of dimension n, f is evaluated n+1 times under forward
\* (the base point once, then one point per coordinate), 2n times under
\* central and n times under complex, and grad[i] is assembled from the
\* evaluations at x moved along coordinate i only.
C9_EvaluationCost ==
    (GradientCalled /\ fd.method \in KnownMethods) =>
        LET n == Len(fd.x0)
            eps == fd.epsilon
            ev == fd.evals
        IN  /\ fd.raised = "none"
            /\ Len(fd.grad) = n
            /\ fd.method = "forward" =>
                 /\ Len(ev) = n + 1
                 /\ ev[1] = RealPoint(fd.x0)
                 /\ \A i \in 1..n :
                      /\ MovedAlong(ev[i + 1], fd.x0, i, eps, 0)
                      /\ fd.grad[i] = RatDiv(RatSub(ReF(fd.f, ev[i + 1].re),
                                                    ReF(fd.f, ev[1].re)),
                                             RatInt(eps))
            /\ fd.method = "central" =>
                 /\ Len(ev) = 2 * n
                 /\ \A i \in 1..n :
                      /\ MovedAlong(ev[2 * i - 1], fd.x0, i, eps, 0)
                      /\ MovedAlong(ev[2 * i], fd.x0, i, -eps, 0)
                      /\ fd.grad[i] = RatDiv(RatSub(ReF(fd.f, ev[2 * i - 1].re),
                                                    ReF(fd.f, ev[2 * i].re)),
                                             RatInt(2 * eps))
            /\ fd.method = "complex" =>
                 /\ Len(ev) = n
                 /\ \A i \in 1..n :
                      /\ MovedAlong(ev[i], fd.x0, i, 0, eps)
                      /\ fd.grad[i] = RatDiv(ImF(fd.f, ev[i].re, ev[i].im),
                                             RatInt(eps))

\* a forward estimate in the largest dimension: MaxDim + 1 evaluations
C9_Witness ==
    /\ GradientCalled
    /\ fd.method = "forward"
    /\ Len(fd.x0) = MaxDim
    /\ Len(fd.evals) = MaxDim + 1
    /\ fd.f.kind = "cubic"

\* C10: for an affine f(x) = a.x + b, any point x and any step epsilon, the
\* central-difference gradient is exactly a.
C10_CentralGradientOfAffine ==
    (GradientCalled /\ fd.method = "central" /\ fd.f.kind = "affine") =>
        /\ fd.raised = "none"
        /\ fd.grad = [i \in 1..Len(fd.x0) |-> RatInt(fd.f.a[i])]

\* an affine f with a nonzero offset and slope, away from the origin, with
\* a step other than 1
C10_Witness ==
    /\ GradientCalled
    /\ fd.method = "central"
    /\ fd.f.kind = "affine"
    /\ Len(fd.x0) = MaxDim
    /\ fd.f.b # 0
    /\ \A i \in 1..Len(fd.x0) : fd.f.a[i] # 0 /\ fd.x0[i] # 0
    /\ fd.epsilon = MaxEps
    /\ fd.grad = [i \in 1..Len(fd.x0) |-> RatInt(fd.f.a[i])]

-----------------------------------------------------------------------------
(* Claims about verify_complexity. *)

VerifyCalled == vc.op = "verify_complexity"
HasChar(d, c) == \E k \in 1..Len(d) : d[k] = c
HasPower(d, c) ==
    \E k \in 1..(Len(d) - 2) : d[k] = "n" /\ d[k + 1] = "^" /\ d[k + 2] = c
\* the verdict came back: no exponent was refused and the fit did not raise
VerdictReturned == VerifyCalled /\ vc.raised = "none"

\* C3 as stated: "n^3" selects 3, "n^2" 2, the bare "n" 1, and every other
\* descriptor raises ValueError.
C3_EveryOtherDescriptorRaises ==
    VerifyCalled =>
        LET d == vc.expected_complexity
        IN  /\ HasPower(d, "3") => vc.expected_exp = 3
            /\ (HasPower(d, "2") /\ ~HasPower(d, "3")) => vc.expected_exp = 2
            /\ d = <<"n">> => vc.expected_exp = 1
            /\ (~HasPower(d, "3") /\ ~HasPower(d, "2") /\ d # <<"n">>) =>
                   vc.raised = "ValueError"

\* C3 (amended): a descriptor containing "n^3" selects 3; otherwise one
\* containing "n^2" selects 2; otherwise one containing an "n" and no caret
\* anywhere selects 1; exactly the remaining descriptors raise ValueError,
\* and they do so before anything is timed.
C3_DescriptorToExponent ==
    VerifyCalled =>
        LET d == vc.expected_complexity
            linear == HasChar(d, "n") /\ ~HasChar(d, "^")
            refused == ~HasPower(d, "3") /\ ~HasPower(d, "2") /\ ~linear
        IN  /\ HasPower(d, "3") => vc.expected_exp = 3
            /\ (HasPower(d, "2") /\ ~HasPower(d, "3")) => vc.expected_exp = 2
            /\ (linear /\ ~HasPower(d, "3") /\ ~HasPower(d, "2")) =>
                   vc.expected_exp = 1
            /\ refused <=> vc.raised = "ValueError"
            /\ refused => vc.func_calls = 0 /\ vc.times = <<>>

\* "n^4" is refused with nothing timed although sizes were supplied
C3_Witness ==
    /\ VerifyCalled
    /\ vc.expected_complexity = <<"n", "^", "4">>
    /\ vc.raised = "ValueError"
    /\ vc.func_calls = 0
    /\ Len(vc.sizes) = MaxSizes

\* C4: with a parsable descriptor and a fitted exponent p/q, verify_complexity
\* returns True exactly when |p/q - expected| < tolerance, and False
\* otherwise, also when the deviation equals the tolerance.
C4_StrictTolerance ==
    (VerdictReturned /\ vc.fit.kind \in {"slope", "zero_rows"}) =>
        LET p == vc.fit.value[1]
            q == vc.fit.value[2]
            t == vc.tolerance
        IN  vc.matches <=> (Abs(p - vc.expected_exp * q) * t[2] < t[1] * q)

\* a fitted 3/2 against the expected 2 with tolerance 1/2: the deviation
\* equals the tolerance and the verdict is False
C4_Witness ==
    /\ VerdictReturned
    /\ vc.fit = [kind |-> "slope", value |-> <<3, 2>>]
    /\ vc.expected_exp = 2
    /\ vc.tolerance = <<1, 2>>
    /\ vc.matches = FALSE

-----------------------------------------------------------------------------
(* Claims about the timing loops. *)

Estimating == tm.entry = "estimate_complexity"
Benchmarking == tm.entry = "benchmark_operation"
\* every repetition of the current size has been run
SizeTimed == pc = "median"

\* C5 as stated: for every size timed, in estimate_complexity and in
\* benchmark_operation, the operation has run n_runs + 1 times: once
\* outside any timed interval, its time discarded, then n_runs timed
\* repetitions.
C5_WarmUpBeforeEverySize ==
    SizeTimed =>
        /\ counts.func = tm.n_runs + 1
        /\ counts.timed = tm.n_runs
        /\ Len(run_times) = tm.n_runs

\* C5 (amended): benchmark_operation runs the operation once untimed and
\* discarded, then n_runs timed repetitions (n_runs + 1 runs, n_runs
\* samples); estimate_complexity has no warm-up: per size func runs exactly
\* n_runs times, every run timed and every run a sample.
C5_WarmUpOnlyInBenchmark ==
    /\ SizeTimed =>
         /\ Len(run_times) = tm.n_runs
         /\ counts.timed = tm.n_runs
         /\ Benchmarking => counts.func = tm.n_runs + 1
         /\ Estimating => counts.func = tm.n_runs
    /\ (pc = "run" /\ run_times = <<>>) =>
         /\ counts.timed = 0
         /\ Benchmarking => counts.func = 1
         /\ Estimating => counts.func = 0

\* a size of estimate_complexity timed with MaxRuns repetitions and no
\* other run of func
C5_Witness ==
    /\ SizeTimed
    /\ Estimating
    /\ tm.n_runs = MaxRuns
    /\ counts.func = MaxRuns
    /\ counts.timed = MaxRuns

\* C6: in estimate_complexity setup_func is never called inside a timed
\* interval: an interval is opened only after this repetition's setup_func
\* call has completed and with no other interval open, is open only around
\* the call of func, and setup_func runs only with no interval open.
C6_SetupOutsideTimedRegion ==
    Estimating =>
        /\ timers \in {0, 1}
        /\ pc = "setup" => timers = 0
        /\ pc = "start" => timers = 0 /\ counts.setup = Len(run_times) + 1
        /\ timers = 1 => pc \in {"call", "stop"}
        /\ pc = "stop" => timers = 1 /\ counts.timed = Len(run_times) + 1

\* the second repetition of a size: its setup is done, its interval is open
\* and func is about to run
C6_Witness ==
    /\ Estimating
    /\ pc = "call"
    /\ timers = 1
    /\ Len(run_times) = 1
    /\ counts.setup = 2
    /\ i_size = 2

EstimateReturned == Estimating /\ pc = "done"
TooFewSizes == Len(tm.sizes) < 2
AllSizesEqual == \A k \in 1..Len(tm.sizes) : tm.sizes[k] = tm.sizes[1]
SomeTimeNonPositive == \E k \in 1..Len(times) : ~RatLess(RatZero, times[k])

\* C7 as stated: with fewer than two sizes, a non-positive median time or
\* all sizes equal, estimate_complexity raises an error and returns no
\* exponent.
C7_DegenerateInputRaises ==
    (EstimateReturned /\ (TooFewSizes \/ SomeTimeNonPositive \/ AllSizesEqual)) =>
        ret.raised # "none"

\* C7 (amended): estimate_complexity checks nothing and raises no
\* InsufficientSamples error.  In each of the three cases every supplied
\* size is timed first and the degenerate system is then handed to the
\* least-squares solver: with one size, or all sizes equal, and positive
\* times, it returns the minimum-norm slope of a rank-deficient system; with
\* no size or a non-positive time the outcome is what the solver makes of an
\* empty system or of -inf (0, nan, or numpy's own LinAlgError).
C7_DegenerateInputIsFitted ==
    EstimateReturned =>
        /\ ret.raised # "InsufficientSamples"
        /\ Len(times) = Len(tm.sizes)
        /\ (Len(tm.sizes) >= 1 /\ AllSizesEqual /\ ~SomeTimeNonPositive) =>
               ret.raised = "none" /\ ret.fit.kind = "min_norm"
        /\ Len(tm.sizes) = 0 => ret.fit.kind \in {"zero_rows", "LinAlgError"}
        /\ SomeTimeNonPositive => ret.fit.kind \in {"nan", "LinAlgError"}
        /\ ~(TooFewSizes \/ SomeTimeNonPositive \/ AllSizesEqual) =>
               ret.raised = "none" /\ ret.fit.kind \in {"slope", "inexact"}

\* a single size, timed with positive times, comes back with an exponent
C7_Witness ==
    /\ EstimateReturned
    /\ Len(tm.sizes) = 1
    /\ ~SomeTimeNonPositive
    /\ ret.raised = "none"
    /\ ret.fit.kind = "min_norm"

-----------------------------------------------------------------------------
(* Claims about the derivative checkers. *)

CheckerReturned ==
    /\ chk.op \in {"check_gradient", "check_hessian"}
    /\ chk.raised = "none"
ZeroReference == chk.norm_analytical_sq = RatZero
\* every entry of the numerical derivative is exactly zero
NumericalIsZero ==
    IF chk.op = "check_gradient" THEN NormSq(chk.numerical) = RatZero
    ELSE FrobeniusSq(chk.numerical) = RatZero

\* C2 as stated: against an analytic derivative of norm zero a checker
\* returns (True, 0.0) when the numerical estimate is zero too, and
\* (False, infinity) when the difference is nonzero, whatever tol > 0.
C2_ZeroReferenceGivesInfinity ==
    (CheckerReturned /\ ZeroReference) =>
        /\ NumericalIsZero =>
             chk.relative_error = Finite(RatZero) /\ chk.passed
        /\ ~NumericalIsZero =>
             chk.relative_error.kind = "inf" /\ ~chk.passed

\* C2 (amended): against an analytic derivative of norm zero a checker
\* returns (True, 0.0) when the numerical estimate is zero too; when the
\* difference is nonzero it returns the absolute norm of the difference, a
\* finite number and never infinity, as relative_error, and passed is True
\* exactly when that norm is below tol.
C2_ZeroReferenceGivesAbsoluteError ==
    (CheckerReturned /\ ZeroReference) =>
        /\ NumericalIsZero =>
             chk.relative_error = Finite(RatZero) /\ chk.passed
        /\ ~NumericalIsZero =>
             /\ chk.relative_error.kind = "finite"
             /\ chk.relative_error.sq =
                    (IF chk.op = "check_gradient" THEN NormSq(chk.numerical)
                     ELSE FrobeniusSq(chk.numerical))
             /\ chk.passed <=>
                    RatLess(chk.relative_error.sq, RatMul(chk.tol, chk.tol))

\* a zero analytic gradient checked against a nonzero numerical one: the
\* error returned is its norm, 1, and with tol = 2 the check passes
C2_Witness ==
    /\ CheckerReturned
    /\ chk.op = "check_gradient"
    /\ ZeroReference
    /\ Len(chk.x) = MaxDim
    /\ ~NumericalIsZero
    /\ chk.relative_error = Finite(RatInt(1))
    /\ chk.tol = <<2, 1>>
    /\ chk.passed

-----------------------------------------------------------------------------
(* Claims about finite_difference_hessian. *)

HessianCalled == fd.op = "finite_difference_hessian"

\* C11: for a quadratic f(x) = 1/2 x^T Q x with Q symmetric, any point x
\* and any epsilon > 0, finite_difference_hessian returns Q exactly: every
\* diagonal entry equals Q[i][i] and every off-diagonal entry Q[i][j].
C11_HessianOfQuadratic ==
    (HessianCalled /\ fd.f.kind = "quad") =>
        LET n == Len(fd.x0)
        IN  fd.H = [i \in 1..n |-> [j \in 1..n |-> RatInt(fd.f.Q[i][j])]]

\* a quadratic with a nonzero diagonal and a nonzero off-diagonal entry,
\* away from the origin, with a step other than 1
C11_Witness ==
    /\ HessianCalled
    /\ fd.f.kind = "quad"
    /\ Len(fd.x0) = MaxDim
    /\ MaxDim >= 2
    /\ fd.f.Q[1][1] = 1
    /\ fd.f.Q[1][2] = 1
    /\ fd.x0[1] = -1
    /\ fd.epsilon = MaxEps
    /\ fd.H[1][2] = RatInt(1)

\* C12: for every f, stateful ones included, every x and every epsilon the
\* returned matrix has H[i][j] = H[j][i] for all i, j, and f is evaluated
\* once at x, twice per coordinate and four times per unordered pair
\* {i, j}: each pair is estimated once and mirrored.
C12_HessianSymmetric ==
    HessianCalled =>
        LET n == Len(fd.x0)
        IN  /\ \A i \in 1..n, j \in 1..n : fd.H[i][j] = fd.H[j][i]
            /\ 2 * Len(fd.evals) = 2 + 4 * n + 4 * n * (n - 1)

\* a function that answers differently at every call, in the largest
\* dimension: a nonzero off-diagonal entry, equal to its mirror image
C12_Witness ==
    /\ HessianCalled
    /\ fd.f.kind = "counter"
    /\ Len(fd.x0) = MaxDim
    /\ MaxDim >= 2
    /\ fd.H[1][2] # RatZero
    /\ fd.H[2][1] = fd.H[1][2]

-----------------------------------------------------------------------------
(* Claims about directional_derivative_check and gradient_consistency_check. *)

DirectionalCalled == fd.op = "directional_derivative_check"
\* grad f(x) . d for the call recorded in fd
DirectionalSlope ==
    RatSum([i \in 1..Len(fd.x0) |-> RatMul(fd.grad_x[i], RatInt(fd.d[i]))])

\* C17: directional_derivative_check returns one entry per supplied alpha,
\* in the order of the alphas, each >= 0: entry k is
\* |f(x + alpha_k d) - (f(x) + alpha_k grad f(x).d)|, divided by
\* |f(x + alpha_k d) - f(x)| when that is nonzero and undivided when it is
\* zero; f is evaluated once at x and once per alpha, grad f once.
C17_DirectionalErrors ==
    DirectionalCalled =>
        LET m == Len(fd.alphas)
            f0 == Eval(fd.f, fd.x0, 0)
        IN  /\ Len(fd.errors) = m
            /\ Len(fd.evals) = m + 1
            /\ fd.evals[1] = RealPoint(fd.x0)
            /\ fd.grad_evals = <<fd.x0>>
            /\ \A k \in 1..m :
                 LET pt == [i \in 1..Len(fd.x0) |-> fd.x0[i] + fd.alphas[k] * fd.d[i]]
                     f_alpha == Eval(fd.f, pt, k)
                     error == RatAbs(RatSub(f_alpha,
                                  RatAdd(f0, RatMul(RatInt(fd.alphas[k]), DirectionalSlope))))
                     diff == RatAbs(RatSub(f_alpha, f0))
                 IN  /\ fd.evals[k + 1] = RealPoint(pt)
                     /\ ~RatLess(fd.errors[k], RatZero)
                     /\ diff # RatZero => fd.errors[k] = RatDiv(error, diff)
                     /\ diff = RatZero => fd.errors[k] = error

\* MaxAlphas step sizes of which the first moves nothing, so that its
\* entry is the undivided error, and the last gives a divided, nonzero one
C17_Witness ==
    /\ DirectionalCalled
    /\ Len(fd.alphas) = MaxAlphas
    /\ Len(fd.x0) = MaxDim
    /\ fd.alphas[1] = 0
    /\ fd.alphas[MaxAlphas] = 2
    /\ fd.f.kind = "cubic"
    /\ fd.errors[1] = RatZero
    /\ RatLess(RatZero, fd.errors[MaxAlphas])
    /\ fd.errors[MaxAlphas] # RatInt(1)

ConsistencyCalled == fd.op = "gradient_consistency_check"
\* the gradient came back the same from every call
SameGradientEverywhere == \A k \in 1..Len(fd.variations) : fd.variations[k] = RatZero

\* C16 as stated: gradient_consistency_check evaluates the gradient once at
\* x and once per sample, returns True exactly when the largest variation
\* is below 10 * epsilon * ||grad(x)||, and so passes a gradient that is the
\* same at every sampled point.
C16_ConstantGradientPasses ==
    (ConsistencyCalled /\ fd.raised = "none") =>
        /\ Len(fd.evals) = fd.n_samples + 1
        /\ fd.evals[1] = fd.x0
        /\ fd.passed <=>
             \A k \in 1..Len(fd.variations) :
                 RatLess(fd.variations[k],
                         RatMul(RatInt(100 * fd.epsilon * fd.epsilon), fd.norm_base_sq))
        /\ SameGradientEverywhere => fd.passed

\* a gradient that is zero at x and at every sample comes back as failed
C16_Witness ==
    /\ ConsistencyCalled
    /\ fd.raised = "none"
    /\ fd.g = [kind |-> "const", v |-> 0]
    /\ fd.n_samples = MaxSamples
    /\ Len(fd.x0) = MaxDim
    /\ SameGradientEverywhere
    /\ ~fd.passed

-----------------------------------------------------------------------------
(* Claims about the caller's array x. *)

EstimatorCalled == fd.op # "none"
\* the coordinates in which the point p differs from x
MovedCoordinates(p, x) == {i \in 1..Len(x) : p[i] # x[i]}
\* the coordinates of a complex point with a nonzero imaginary part
ImaginaryCoordinates(p) == {i \in 1..Len(p.im) : p.im[i] # 0}

\* C13: after finite_difference_gradient (any scheme),
\* finite_difference_hessian, directional_derivative_check or
\* gradient_consistency_check the caller's x holds the values it held
\* before the call, and every point handed to f or grad_f differs from x
\* only in the coordinates perturbed: at most one for a gradient, at most
\* two for a Hessian, those along d for a directional check, those drawn
\* nonzero for a consistency check.
C13_PointNeverMutated ==
    EstimatorCalled =>
        /\ fd.x = fd.x0
        /\ GradientCalled =>
             \A k \in 1..Len(fd.evals) :
                 /\ Cardinality(MovedCoordinates(fd.evals[k].re, fd.x0)
                                \cup ImaginaryCoordinates(fd.evals[k])) <= 1
                 /\ fd.method # "complex" => ImaginaryCoordinates(fd.evals[k]) = {}
        /\ HessianCalled =>
             \A k \in 1..Len(fd.evals) :
                 /\ Cardinality(MovedCoordinates(fd.evals[k].re, fd.x0)) <= 2
                 /\ ImaginaryCoordinates(fd.evals[k]) = {}
        /\ DirectionalCalled =>
             \A k \in 1..Len(fd.evals) :
                 /\ MovedCoordinates(fd.evals[k].re, fd.x0)
                        \subseteq {i \in 1..Len(fd.x0) : fd.d[i] # 0}
                 /\ ImaginaryCoordinates(fd.evals[k]) = {}
        /\ ConsistencyCalled =>
             \A k \in 2..Len(fd.evals) :
                 MovedCoordinates(fd.evals[k], fd.x0)
                     = {i \in 1..Len(fd.x0) : fd.noise[k - 1][i] # 0}

\* a forward gradient in the largest dimension: every coordinate has been
\* perturbed in turn and x is where it was
C13_Witness ==
    /\ GradientCalled
    /\ fd.method = "forward"
    /\ Len(fd.x0) = MaxDim
    /\ Len(fd.evals) = MaxDim + 1
    /\ \A i \in 1..MaxDim : MovedCoordinates(fd.evals[i + 1].re, fd.x0) = {i}
    /\ fd.x = fd.x0
    /\ fd.f.kind = "quad"

-----------------------------------------------------------------------------
(* Claims about the report of the derivative checkers. *)

CheckerCalled == chk.op \in {"check_gradient", "check_hessian"}
\* the same call with the other verbosity
OtherVerbosity ==
    IF chk.op = "check_gradient"
    THEN check_gradient(chk.f, chk.analytical, chk.x, chk.epsilon, chk.tol,
                        chk.method, ~chk.verbose)
    ELSE check_hessian(chk.f, chk.analytical, chk.x, chk.epsilon, chk.tol,
                       ~chk.verbose)

\* C14: check_gradient and check_hessian return the same pair (passed,
\* relative_error), or raise the same error, with verbose = True and with
\* verbose = False; verbosity changes only what is printed, and nothing is
\* printed without it.
C14_VerbosityPreservesResult ==
    CheckerCalled =>
        /\ OtherVerbosity.raised = chk.raised
        /\ OtherVerbosity.passed = chk.passed
        /\ OtherVerbosity.relative_error = chk.relative_error
        /\ ~chk.verbose => chk.printed = <<>>
        /\ (chk.verbose /\ chk.raised = "none") =>
               chk.printed[1] = [line |-> "Status", passed |-> chk.passed]

\* a failing Hessian check with its report switched off: it has printed
\* nothing and its verdict is the one the verbose call returns
C14_Witness ==
    /\ chk.op = "check_hessian"
    /\ ~chk.verbose
    /\ Len(chk.x) = MaxDim
    /\ ~chk.passed
    /\ chk.relative_error # Finite(RatZero)
    /\ chk.printed = <<>>
    /\ ~OtherVerbosity.passed
    /\ OtherVerbosity.printed # <<>>

\* the "Worst component" lines of the report
WorstComponents ==
    {k \in 1..Len(chk.printed) : chk.printed[k].line = "Worst component"}
\* analytic minus numerical gradient of the call recorded in chk
GradientDifference ==
    [k \in 1..Len(chk.x) |-> RatSub(chk.analytical[k], chk.numerical[k])]

\* C15 as stated: every failing check, of a gradient or of a Hessian,
\* verbose or not, identifies the worst component: its index and its
\* analytic, numerical and difference values.
C15_EveryFailureNamesWorstComponent ==
    (CheckerReturned /\ ~chk.passed) => WorstComponents # {}

\* C15 (amended): the worst component is identified only in the printed
\* report of check_gradient: it is printed exactly when verbose is True and
\* the check has failed (with a nonzero difference), as the first index of
\* the largest |analytic - numerical| with the analytic, numerical and
\* difference values there.  check_hessian never identifies one, and
\* neither checker does with verbose = False.
C15_WorstComponentOnlyInVerboseGradient ==
    CheckerReturned =>
        /\ chk.op = "check_hessian" => WorstComponents = {}
        /\ ~chk.verbose => WorstComponents = {}
        /\ chk.op = "check_gradient" =>
             /\ WorstComponents # {} <=>
                    (chk.verbose /\ ~chk.passed /\ chk.norm_diff_sq # RatZero)
             /\ \A k \in WorstComponents :
                  LET w == chk.printed[k]
                      diff == GradientDifference
                  IN  /\ k = 2
                      /\ w.index \in 1..Len(chk.x)
                      /\ \A j \in 1..Len(chk.x) :
                           ~RatLess(RatAbs(diff[w.index]), RatAbs(diff[j]))
                      /\ \A j \in 1..(w.index - 1) :
                           RatLess(RatAbs(diff[j]), RatAbs(diff[w.index]))
                      /\ w.analytical = chk.analytical[w.index]
                      /\ w.numerical = chk.numerical[w.index]
                      /\ w.difference = diff[w.index]

\* a failed verbose gradient check whose components are all equally far
\* off: the first of them is the one reported
C15_Witness ==
    /\ CheckerReturned
    /\ chk.op = "check_gradient"
    /\ chk.verbose
    /\ ~chk.passed
    /\ Len(chk.x) = MaxDim
    /\ \A j \in 1..MaxDim : GradientDifference[j] = RatInt(2)
    /\ WorstComponents = {2}
    /\ chk.printed[2].index = 1

-----------------------------------------------------------------------------
(* Claims about the sign of the counts. *)

PositiveDimensions ==
    /\ flop.op # "none"
    /\ flop.n >= 1
    /\ flop.op \in {"matvec", "matmul", "qr"} => flop.m >= 1
    /\ flop.op = "matmul" => flop.k >= 1

\* C19 as stated: for all dimensions m, n, k >= 1 every count is >= 0:
\* dot product 2n - 1, matvec 2mn, matmul 2mnk, triangular solve n^2, LU,
\* Cholesky, and QR 2mn^2 - floor(2n^3 / 3), QR with m < n included.
C19_CountsNonNegative ==
    PositiveDimensions =>
        /\ flop.result >= 0
        /\ flop.op = "dot_product" => flop.result = 2 * flop.n - 1
        /\ flop.op = "matvec" => flop.result = 2 * flop.m * flop.n
        /\ flop.op = "matmul" => flop.result = 2 * flop.m * flop.n * flop.k
        /\ flop.op = "triangular_solve" => flop.result = flop.n * flop.n
        /\ flop.op = "qr" =>
             flop.result = 2 * flop.m * flop.n * flop.n
                             - ((2 * flop.n * flop.n * flop.n) \div 3)

\* the QR count of a 1 x 4 matrix: 32 - 42
C19_Witness ==
    /\ flop.op = "qr"
    /\ flop.m = 1
    /\ flop.n = 4
    /\ flop.result = -10

-----------------------------------------------------------------------------
(* Claims about the scoped timer and counter. *)

\* C18: once a Timer's block has been left, by its end, an early return or
\* an error, elapsed is set, is >= 0 and is the time since the block was
\* entered, and an error of the block has reached the caller.  A
\* FlopCounter's count is 0 on entry, is the sum of the increments recorded
\* inside the block while it is open and when it is left (1 per add,
\* multiply, divide, sqrt; 2n per dot(n); 2mn per matvec(m, n)), stays
\* readable with that value afterwards, and an error of its block reaches
\* the caller too.
C18_ScopesFinalize ==
    /\ scope.timer.at = "left" =>
         /\ scope.timer.elapsed # None
         /\ scope.timer.elapsed[1] >= 0
         /\ scope.timer.elapsed[1] <= scope.clock - scope.timer.start_time[1]
         /\ scope.timer.propagated <=> scope.timer.left_by = "raise"
    /\ scope.timer.at = "inside" =>
         /\ scope.timer.start_time # None
         /\ scope.timer.start_time[1] <= scope.clock
    /\ scope.counter.at = "inside" => scope.counter.count = scope.counter.recorded
    /\ scope.counter.at = "left" =>
         /\ scope.counter.count = scope.counter.recorded + scope.counter.after
         /\ scope.counter.propagated <=> scope.counter.left_by = "raise"

\* a Timer block left by an error after two ticks and a FlopCounter block
\* left by an early return: elapsed is 2, the error went on, and the
\* counter, which had counted before it was entered, reads the 5 recorded
\* inside (a matvec(2, 1) and an add)
C18_Witness ==
    /\ scope.timer.at = "left"
    /\ scope.timer.left_by = "raise"
    /\ scope.timer.elapsed = <<2>>
    /\ scope.timer.start_time = <<1>>
    /\ scope.timer.propagated
    /\ scope.counter.at = "left"
    /\ scope.counter.left_by = "return"
    /\ scope.counter.recorded = 5
    /\ scope.counter.after = 0
    /\ scope.counter.count = 5

=============================================================================
